---- MODULE Spec2Model ----
(***************************************************************************)
(* Tab Monitor (Chrome extension): the limit-enforcement engine.           *)
(*                                                                         *)
(* The module holds several state machines over one set of variables:      *)
(*   Spec        the window engine of src/background.js (grace-period      *)
(*               variant): window events, grace timers, forceCheck;        *)
(*   SpecQuiet   that engine left to itself after a window was opened;     *)
(*   SpecImm     the immediate strategy: initialize and forceCheck;        *)
(*   SpecWarn    the warning-view strategy (windowLimitAlert.js);          *)
(*   SpecForce   the forceCheck command over tabs and windows;             *)
(*   SpecTab     one pass of enforceTabLimit over a tab snapshot;          *)
(*   SpecTabLive that pass in a window the user keeps using;               *)
(*   SpecCfg     the configuration resolver and saveConfig of the          *)
(*               enterprise-policy variant (src/unnamed/part_001);         *)
(*   SpecSave    the getConfig and saveConfig commands of background.js;   *)
(*   SpecLog     the activity log (addLogEntry / clearLog);                *)
(*   SpecBadge   the badge refresh (updateAllWindowBadges);                *)
(*   SpecDispatch the tab and window event listeners;                      *)
(*   SpecShow    showWindowLimitAlertAndClose, await by await;             *)
(*   SpecPage    the warning page script (src/unnamed/part_000);           *)
(*   SpecStats   getAllWindowTabCounts and getWindowCount;                 *)
(*   SpecTabPin  SpecTabLive with the user pinning tabs as well;           *)
(*   SpecBadgeRace  overlapping runs of updateAllWindowBadges;             *)
(*   SpecForceFair  SpecForce with its handlers' steps weakly fair;        *)
(*   SpecKinds   the window engine over normal and popup windows.          *)
(* Each specification leaves the variables of the others unchanged.        *)
(***************************************************************************)
EXTENDS Integers, Sequences, FiniteSets

VARIABLES
  \* ---- tab enforcement (enforceTabLimit) ----
  tabs,          \* the live tabs of the window: a set of [id, pinned]
  tabConfig,     \* the stored configuration the pass reads
  newTabId,      \* the id handed to enforceTabLimit, NoTab for null
  tabPc,         \* "idle" | "closing" | "done"
  tabsToClose,   \* the rest of the pass's tabsToClose (ids)
  tabPass,       \* what the pass saw and did: snapshot, plan, closed ids
  activeTab,     \* id of the window's active tab, NoTab when not followed
  lastTabClose,  \* the chrome.tabs.remove of the step just taken
  \* ---- window engine (src/background.js) ----
  windows,        \* ids of the open normal windows
  focused,        \* id of the focused window, NoWindow for none
  nextWindowId,   \* the id the browser gives the next window
  config,         \* chrome.storage.sync, merged with DEFAULT_CONFIG
  now,            \* Date.now()
  recentWindows,  \* Map windowId -> creation timestamp
  windowTimeouts, \* Map windowId -> timeoutId
  timers,         \* live setTimeout timers: [handle, wid, due]
  nextHandle,     \* the next timeoutId
  created,        \* windows.onCreated listeners in flight: id -> [pc, cfg]
  removedQ,       \* windows.onRemoved listeners in flight (ids)
  grace,          \* closeSpecificWindowAfterGrace calls in flight: id -> [pc, cfg]
  enforce,        \* the enforceWindowLimit pass of forceCheck: [pc, cfg, todo]
  removedTracked, \* ids removed while tracked, their timer not yet fired
  lastClose,      \* the chrome.windows.remove issued by the step just taken
  \* ---- configuration resolver (enterprise-policy variant) ----
  managedStore,   \* chrome.storage.managed: key -> value, read-only here
  localStore,     \* chrome.storage.sync: key -> value
  lastGet,        \* the getConfig call of the step just taken
  lastSave,       \* the saveConfig call of the step just taken
  \* ---- activity log ----
  activityLog,    \* the log, newest first
  appended,       \* every entry appended since the last clear, oldest first
  logSeq,         \* entries appended so far
  \* ---- warning-view strategy (src/utils/windowLimitAlert.js) ----
  warned,         \* windows whose first tab shows the warning page
  confirm,        \* closeWindowConfirmed commands: id -> [confirmed, pc, closed]
  \* ---- the forceCheck command (src/background.js) ----
  fc,             \* the handler: [pc, queue, snapshot, responded]
  tabsOf,         \* window id -> its tabs, a set of [id, pinned]
  tabCalls,       \* enforceTabLimit calls: window id -> [pc, seen, limit, todo, closed]
  \* ---- the configuration commands of handleMessage (src/background.js) ----
  reply,          \* the response sent by the step just taken
  \* ---- the badge (updateAllWindowBadges) ----
  allWindows,     \* every open window: id -> [type, tabCount]
  limits,         \* the stored configuration: [tabLimit, windowLimit]
  refresh,        \* the refresh in flight: [pc, snapshot, todo, stats]
  badge,          \* the badge as shown: [text, color]
  lastRefresh,    \* the refresh the step just taken ended
  \* ---- the event listeners (src/background.js) ----
  dspEnabled,     \* config.enabled in storage
  run,            \* the listener in flight: [event, win, tab, pc, enabled, did]
  \* ---- showWindowLimitAlertAndClose, await by await ----
  show,           \* the call in flight: [wid, pc, cfg, count]
  lastShow,       \* how the call that ended in the step just taken ended
  \* ---- the warning page script (window-limit-warning) ----
  page,           \* [pc, windowId, grace, responded, start, countdown,
                  \*  running, sent]
  \* ---- getAllWindowTabCounts and getWindowCount ----
  stat,           \* the getAllWindowTabCounts call in flight
  lastStat,       \* what the call that returned in the step just taken gave
  \* ---- overlapping updateAllWindowBadges calls ----
  calls,          \* slot -> the updateAllWindowBadges call in it
  pendingEvents   \* events dispatched whose listener has not reached its refresh

tabVars == <<tabs, tabConfig, newTabId, tabPc, tabsToClose, tabPass,
             activeTab, lastTabClose>>

browser == <<windows, focused, nextWindowId>>

tracking == <<recentWindows, windowTimeouts, timers, nextHandle>>

winVars == <<browser, config, now, tracking, created, removedQ, grace, enforce,
             removedTracked, lastClose>>

cfgVars == <<managedStore, localStore, lastGet, lastSave>>

logVars == <<activityLog, appended, logSeq>>

warnVars == <<warned, confirm>>

\* the variables of the machines added after the first four
fcVars == <<fc, tabsOf, tabCalls>>

msgVars == <<reply>>

bdgVars == <<allWindows, limits, refresh, badge, lastRefresh>>

dspVars == <<dspEnabled, run>>

showVars == <<show, lastShow>>

pageVars == <<page>>

statVars == <<stat, lastStat>>

raceVars == <<calls, pendingEvents>>

extraVars == <<dspVars, showVars, pageVars, statVars, raceVars>>

extraButDsp == <<showVars, pageVars, statVars, raceVars>>

extraButShow == <<dspVars, pageVars, statVars, raceVars>>

extraButPage == <<dspVars, showVars, statVars, raceVars>>

extraButStat == <<dspVars, showVars, pageVars, raceVars>>

extraButRace == <<dspVars, showVars, pageVars, statVars>>

restVars == <<warnVars, fcVars, msgVars, bdgVars, extraVars>>

restButWarn == <<fcVars, msgVars, bdgVars, extraVars>>

restButFc == <<warnVars, msgVars, bdgVars, extraVars>>

restButMsg == <<warnVars, fcVars, bdgVars, extraVars>>

restButBdg == <<warnVars, fcVars, msgVars, extraVars>>

restButExtra == <<warnVars, fcVars, msgVars, bdgVars>>

vars == <<tabVars, winVars, cfgVars, logVars, restVars>>

\* ------------------------------------------------------------------ bounds

MaxTabId == 8

MaxWindowId == 3

MaxTime == 2

MaxGrace == 2

MaxWindowLimit == 1

MaxImmWindowId == 4

MaxImmWindowLimit == 3

MaxFcWindowId == 3

MaxFcTabs == 2

MaxLiveTabs == 4

MaxBadgeWindowId == 3

MaxBadgeTabs == 4

MaxDspWindowId == 2

MaxDspTabId == 2

\* the warning page: window ids 1..MaxPageWindowId, windowGracePeriod in
\* steps of half a second up to MaxPageGraceSteps steps, and at most
\* MaxPageSends confirmations while the page is still open
MaxPageWindowId == 2

MaxPageGraceSteps == 7

MaxPageSends == 2

\* overlapping refreshes: window ids 1..MaxRaceWindowId, up to MaxRaceTabs
\* tabs a window, MaxRefreshes calls in flight at a time
MaxRaceWindowId == 2

MaxRaceTabs == 2

MaxRefreshes == 2

\* windows of either type: ids 1..MaxKindWindowId
MaxKindWindowId == 3

MaxLogAppends == 53

\* MAX_LOG_ENTRIES
MAX_LOG_ENTRIES == 50

\* DEFAULT_CONFIG.tabLimit
DEFAULT_TAB_LIMIT == 5

\* DEFAULT_CONFIG.windowLimit
DEFAULT_WINDOW_LIMIT == 3

\* DEFAULT_CONFIG.pauseBetweenClosures, in ms
DEFAULT_PAUSE == 1000

\* `let countdown = 5; // Default` of the warning page
DEFAULT_COUNTDOWN == 5

\* milliseconds in a second, the divisor of the page's conversion
MS_PER_SECOND == 1000

\* half a second, the step of the windowGracePeriod values tried
HALF_SECOND == 500

NoTab == 0

\* chrome.windows.WINDOW_ID_NONE stands for "no window"
NoWindow == 0

\* -------------------------------------------------------------- sequences

Min(a, b) == IF a <= b THEN a ELSE b

SetMax(S) == CHOOSE x \in S : \A y \in S : y <= x

\* Array.prototype.slice(0, n) for n >= 0
Slice(s, n) == SubSeq(s, 1, Min(n, Len(s)))

SeqToSet(s) == { s[i] : i \in 1..Len(s) }

\* the slip (a, b) => a - b: oldest first
RECURSIVE SortAscending(_)
SortAscending(S) ==
  IF S = {} THEN <<>>
  ELSE LET m == SetMax(S) IN SortAscending(S \ {m}) \o <<m>>

\* ids.sort((a, b) => b - a): the ids in descending order
RECURSIVE SortDescending(_)
SortDescending(S) ==
  IF S = {} THEN <<>>
  ELSE LET m == SetMax(S) IN <<m>> \o SortDescending(S \ {m})

\* ------------------------------------------------- enforceTabLimit (pure)

TabIds(ts) == { t.id : t \in ts }

\* the slip of putting the new tab first without looking at its pinned flag
ClosableTabsNewTabUnchecked(ts, newId) ==
  IF newId # NoTab
  THEN LET newTab    == { t \in ts : t.id = newId }
           otherTabs == SortDescending(
                          { t.id : t \in { u \in ts : u.id # newId /\ ~u.pinned } })
       IN IF newTab # {} THEN <<newId>> \o otherTabs ELSE otherTabs
  ELSE SortDescending({ t.id : t \in { u \in ts : ~u.pinned } })

\* the behaviour the README describes: the active tab is left out as well
ClosableTabsActiveProtected(ts, newId) ==
  IF newId # NoTab
  THEN LET newTab    == { t \in ts : t.id = newId /\ t.id # activeTab }
           otherTabs == SortDescending(
                          { t.id : t \in { u \in ts : /\ u.id # newId
                                                      /\ ~u.pinned
                                                      /\ u.id # activeTab } })
       IN IF newTab # {} /\ \A t \in newTab : ~t.pinned
          THEN <<newId>> \o otherTabs
          ELSE otherTabs
  ELSE SortDescending(
         { t.id : t \in { u \in ts : ~u.pinned /\ u.id # activeTab } })

\* closableTabs of enforceTabLimit: the close order, as tab ids
ClosableTabs(ts, newId) ==
  IF newId # NoTab
  THEN LET newTab    == { t \in ts : t.id = newId }
           otherTabs == SortDescending(
                          { t.id : t \in { u \in ts : u.id # newId /\ ~u.pinned } })
       IN IF newTab # {} /\ \A t \in newTab : ~t.pinned
          THEN <<newId>> \o otherTabs
          ELSE otherTabs
  ELSE SortDescending({ t.id : t \in { u \in ts : ~u.pinned } })

\* the off-by-one slip: one tab more than the excess
TabsToCloseOneMore(ts, newId, limit) ==
  Slice(ClosableTabs(ts, newId), Cardinality(ts) - limit + 1)

\* tabsToClose = closableTabs.slice(0, excessCount)
TabsToClose(ts, newId, limit) ==
  Slice(ClosableTabs(ts, newId), Cardinality(ts) - limit)

\* ------------------------------------------------------------------- maps

EmptyMap == [k \in {} |-> 0]

MapSet(m, k, v) == [x \in DOMAIN m \cup {k} |-> IF x = k THEN v ELSE m[x]]

MapDelete(m, k) == [x \in DOMAIN m \ {k} |-> m[x]]

\* ---------------------------------------------------------- SpecTab: Init

TabSnapshots ==
  { ts \in SUBSET [id : 1..MaxTabId, pinned : BOOLEAN] :
      \A t, u \in ts : t.id = u.id => t = u }

\* tabLimit: the smallest the popup allows, and the default
TabConfigs ==
  [enabled : BOOLEAN, autoClose : BOOLEAN, tabLimit : {1, DEFAULT_TAB_LIMIT}]

NoPass == [ran |-> FALSE, snapshot |-> {}, plan |-> <<>>, closed |-> <<>>,
           active |-> NoTab, attempted |-> <<>>, emitted |-> <<>>]

\* no chrome.tabs.remove in the step just taken; otherwise the tab id,
\* whether the tab was gone already (the call threw), the type of the log
\* entry written for it, whether the tab was active or pinned, and the
\* number of tabs the window had just before
NoTabClose == [id |-> NoTab, gone |-> FALSE, logged |-> "none",
               wasActive |-> FALSE, wasPinned |-> FALSE, before |-> 0]

TabIdle ==
  /\ tabs = {}
  /\ tabConfig = [enabled |-> TRUE, autoClose |-> TRUE, tabLimit |-> DEFAULT_TAB_LIMIT]
  /\ newTabId = NoTab
  /\ tabPc = "idle"
  /\ tabsToClose = <<>>
  /\ tabPass = NoPass
  /\ activeTab = NoTab
  /\ lastTabClose = NoTabClose

\* the active tab is not followed here: enforceTabLimit never reads it
TabOnlyInit ==
  /\ tabs \in TabSnapshots
  /\ tabConfig \in TabConfigs
  /\ newTabId \in 0..MaxTabId
  /\ tabPc = "idle"
  /\ tabsToClose = <<>>
  /\ tabPass = NoPass
  /\ activeTab = NoTab
  /\ lastTabClose = NoTabClose

\* what the pass emits before its loop: the 'warning' log entry, and one
\* notification when config.notifications is set
PassAnnouncement(notifications) ==
  IF notifications THEN <<"warning", "notification">> ELSE <<"warning">>

\* the pause of the loop body, inside the try and after the remove: taken
\* when tabs are left (i < tabsToClose.length - 1) and the configured pause
\* is positive
PauseAfterClose(rest) ==
  IF rest # <<>> /\ DEFAULT_PAUSE > 0 THEN <<"pause">> ELSE <<>>

\* the slip of a try around the whole loop: a throw ends the batch
AbortAfterThrow(rest) == <<>>

\* the try/catch is inside the loop: after a throw the loop goes on with
\* the tabs that are left
ContinueAfterThrow(rest) == rest

\* enforceTabLimit up to its close loop: the guards and the plan
EnforceTabLimit ==
  /\ tabPc = "idle"
  /\ IF ~tabConfig.enabled \/ ~tabConfig.autoClose
     THEN /\ tabPc' = "done"
          /\ UNCHANGED <<tabsToClose, tabPass>>
     ELSE IF Cardinality(tabs) <= tabConfig.tabLimit
     THEN /\ tabPc' = "done"
          /\ UNCHANGED <<tabsToClose, tabPass>>
     ELSE LET plan == TabsToClose(tabs, newTabId, tabConfig.tabLimit) IN
          /\ tabsToClose' = plan
          /\ \E notifications \in BOOLEAN :
               tabPass' = [ran |-> TRUE, snapshot |-> tabs, plan |-> plan,
                           closed |-> <<>>, active |-> activeTab,
                           attempted |-> <<>>,
                           emitted |-> PassAnnouncement(notifications)]
          /\ tabPc' = IF plan = <<>> THEN "done" ELSE "closing"
  /\ lastTabClose' = NoTabClose
  /\ UNCHANGED <<tabs, tabConfig, newTabId, activeTab>>
  /\ UNCHANGED <<winVars, cfgVars, logVars, restVars>>

\* one turn of the close loop: chrome.tabs.remove(tab.id) and the 'action'
\* log entry; when the tab is gone the call throws and the catch logs
\* 'Failed to close tab' as an error. Closing the active tab makes the
\* browser activate another one.
CloseNextTab ==
  /\ tabPc = "closing"
  /\ LET id == Head(tabsToClose)
         rest == { t \in tabs : t.id # id }
     IN IF id \in TabIds(tabs)
        THEN /\ tabs' = rest
             /\ tabPass' = [tabPass EXCEPT !.closed = Append(@, id),
                                           !.attempted = Append(@, id),
                                           !.emitted =
                                              Append(@, "action") \o
                                                PauseAfterClose(Tail(tabsToClose))]
             /\ tabsToClose' = Tail(tabsToClose)
             /\ lastTabClose' =
                  [id |-> id, gone |-> FALSE, logged |-> "action",
                   wasActive |-> (activeTab = id),
                   wasPinned |-> \E t \in tabs : t.id = id /\ t.pinned,
                   before |-> Cardinality(tabs)]
             /\ activeTab' \in IF activeTab # id THEN {activeTab}
                               ELSE IF rest = {} THEN {NoTab}
                               ELSE TabIds(rest)
        ELSE /\ lastTabClose' =
                  [id |-> id, gone |-> TRUE, logged |-> "error",
                   wasActive |-> FALSE, wasPinned |-> FALSE,
                   before |-> Cardinality(tabs)]
             /\ tabPass' = [tabPass EXCEPT !.attempted = Append(@, id),
                                           !.emitted = Append(@, "error")]
             /\ tabsToClose' = ContinueAfterThrow(Tail(tabsToClose))
             /\ UNCHANGED <<tabs, activeTab>>
  /\ tabPc' = IF tabsToClose' = <<>> THEN "done" ELSE "closing"
  /\ UNCHANGED <<tabConfig, newTabId>>
  /\ UNCHANGED <<winVars, cfgVars, logVars, restVars>>

TabNext == EnforceTabLimit \/ CloseNextTab

\* ---- the same pass in a live window: the user closes and activates tabs

\* tabs 1..n, any of them pinned
LiveTabSets ==
  { { [id |-> i, pinned |-> (i \in P)] : i \in 1..n } :
      n \in 1..MaxLiveTabs, P \in SUBSET (1..MaxLiveTabs) }

\* the user closes a tab; the browser activates another one if it was active
UserCloseTab ==
  /\ \E t \in tabs :
       LET rest == tabs \ {t} IN
       /\ tabs' = rest
       /\ activeTab' \in IF activeTab # t.id THEN {activeTab}
                         ELSE IF rest = {} THEN {NoTab}
                         ELSE TabIds(rest)
  /\ lastTabClose' = NoTabClose
  /\ UNCHANGED <<tabConfig, newTabId, tabPc, tabsToClose, tabPass>>
  /\ UNCHANGED <<winVars, cfgVars, logVars, restVars>>

UserActivateTab ==
  /\ \E id \in TabIds(tabs) : id # activeTab /\ activeTab' = id
  /\ lastTabClose' = NoTabClose
  /\ UNCHANGED <<tabs, tabConfig, newTabId, tabPc, tabsToClose, tabPass>>
  /\ UNCHANGED <<winVars, cfgVars, logVars, restVars>>

TabLiveNext ==
  \/ EnforceTabLimit
  \/ CloseNextTab
  \/ UserCloseTab
  \/ UserActivateTab

\* the user pins a tab; no listener of the extension hears of it
UserPinTab ==
  /\ \E t \in tabs :
       /\ ~t.pinned
       /\ tabs' = (tabs \ {t}) \cup {[t EXCEPT !.pinned = TRUE]}
  /\ lastTabClose' = NoTabClose
  /\ UNCHANGED <<tabConfig, newTabId, tabPc, tabsToClose, tabPass, activeTab>>
  /\ UNCHANGED <<winVars, cfgVars, logVars, restVars>>

TabPinNext ==
  \/ EnforceTabLimit
  \/ CloseNextTab
  \/ UserCloseTab
  \/ UserActivateTab
  \/ UserPinTab

\* a window with an active tab; the new tab, if any, is one of its tabs
TabLiveOnlyInit ==
  /\ tabs \in LiveTabSets
  /\ tabConfig \in TabConfigs
  /\ newTabId \in {NoTab} \cup TabIds(tabs)
  /\ tabPc = "idle"
  /\ tabsToClose = <<>>
  /\ tabPass = NoPass
  /\ activeTab \in TabIds(tabs)
  /\ lastTabClose = NoTabClose

\* ----------------------------------------------------------- window engine

Configs ==
  [enabled : BOOLEAN, autoCloseWindows : BOOLEAN,
   windowLimit : 1..MaxWindowLimit, windowGracePeriod : 1..MaxGrace]

\* what the step just taken did to the windows: the chrome.windows.remove it
\* issued (by, wid, wasFocused, early), the windows, focus and limit it saw,
\* whether it was the snapshot step of an enforceWindowLimit pass, and
\* whether that pass logged "Cannot close any windows"
NoClose == [by |-> "none", wid |-> NoWindow, wasFocused |-> FALSE,
            early |-> FALSE, seen |-> {}, foc |-> NoWindow, limit |-> 0,
            atSnapshot |-> FALSE, warned |-> FALSE]

\* no enforceWindowLimit pass in flight; by names the caller of a pass
IdlePass == [pc |-> "idle", cfg |-> <<>>, todo |-> <<>>, by |-> "none"]

\* the windows the session starts with: they were never seen by onCreated
InitialWindows == {1, 2}

\* the session's windows, the first focused; nothing tracked; enabled
WinIdle ==
  /\ windows = InitialWindows
  /\ focused = 1
  /\ nextWindowId = SetMax(InitialWindows) + 1
  /\ config = [enabled |-> TRUE, autoCloseWindows |-> TRUE,
               windowLimit |-> 1, windowGracePeriod |-> 1]
  /\ now = 0
  /\ recentWindows = EmptyMap
  /\ windowTimeouts = EmptyMap
  /\ timers = {}
  /\ nextHandle = 1
  /\ created = EmptyMap
  /\ removedQ = {}
  /\ grace = EmptyMap
  /\ enforce = IdlePass
  /\ removedTracked = {}
  /\ lastClose = NoClose

WinInit == WinIdle

\* w has a tracking entry, and its grace timer (if one was set) is still live
IsTracked(w) ==
  /\ w \in DOMAIN recentWindows \/ w \in DOMAIN windowTimeouts
  /\ w \in DOMAIN windowTimeouts
       => \E t \in timers : t.handle = windowTimeouts[w]

\* What the browser does when window w goes away, whoever closed it: the
\* window leaves the directory and windows.onRemoved is dispatched.
WindowGone(w) ==
  /\ windows' = windows \ {w}
  /\ focused' = IF focused = w THEN NoWindow ELSE focused
  /\ removedQ' = removedQ \cup {w}
  /\ removedTracked' = IF IsTracked(w) THEN removedTracked \cup {w}
                       ELSE removedTracked
  /\ UNCHANGED nextWindowId

\* The record of a chrome.windows.remove(w) issued by the extension under
\* configuration cfg: whether w had the focus, and whether w was younger
\* than cfg.windowGracePeriod by its timestamp in recentWindows.
CloseRecord(w, by, cfg) ==
  [by |-> by, wid |-> w, wasFocused |-> (focused = w),
   early |-> /\ w \in DOMAIN recentWindows
             /\ now - recentWindows[w] < cfg.windowGracePeriod,
   seen |-> windows, foc |-> focused, limit |-> cfg.windowLimit,
   atSnapshot |-> FALSE, warned |-> FALSE]

\* ---- the user and the clock

\* a new normal window opens; it may or may not take the focus
OpenWindow ==
  /\ nextWindowId <= MaxWindowId
  /\ LET w == nextWindowId IN
     /\ windows' = windows \cup {w}
     /\ focused' \in {focused, w}
     /\ created' = MapSet(created, w, [pc |-> "config", cfg |-> <<>>])
  /\ nextWindowId' = nextWindowId + 1
  /\ lastClose' = NoClose
  /\ UNCHANGED <<config, now, tracking, removedQ, grace, enforce, removedTracked>>
  /\ UNCHANGED <<tabVars, cfgVars, logVars, restVars>>

UserCloseWindow ==
  /\ \E w \in windows : WindowGone(w)
  /\ lastClose' = NoClose
  /\ UNCHANGED <<config, now, tracking, created, grace, enforce>>
  /\ UNCHANGED <<tabVars, cfgVars, logVars, restVars>>

\* windows.onFocusChanged: the listener only refreshes the badge
FocusWindow ==
  /\ \E w \in windows : w # focused /\ focused' = w
  /\ lastClose' = NoClose
  /\ UNCHANGED <<windows, nextWindowId, config, now, tracking, created, removedQ,
                 grace, enforce, removedTracked>>
  /\ UNCHANGED <<tabVars, cfgVars, logVars, restVars>>

\* the popup's saveConfig message: chrome.storage.sync.set(config)
SaveConfig ==
  /\ \E c \in Configs : c # config /\ config' = c
  /\ lastClose' = NoClose
  /\ UNCHANGED <<browser, now, tracking, created, removedQ, grace, enforce,
                 removedTracked>>
  /\ UNCHANGED <<tabVars, cfgVars, logVars, restVars>>

Tick ==
  /\ now < MaxTime
  /\ now' = now + 1
  /\ lastClose' = NoClose
  /\ UNCHANGED <<browser, config, tracking, created, removedQ, grace, enforce,
                 removedTracked>>
  /\ UNCHANGED <<tabVars, cfgVars, logVars, restVars>>

\* ---- chrome.windows.onCreated listener

\* up to its second await: getConfig, the enabled guard, recentWindows.set
OnCreatedTrack ==
  /\ \E w \in DOMAIN created :
       /\ created[w].pc = "config"
       /\ IF ~config.enabled
          THEN /\ created' = MapDelete(created, w)
               /\ UNCHANGED recentWindows
          ELSE /\ recentWindows' = MapSet(recentWindows, w, now)
               /\ created' = MapSet(created, w, [pc |-> "count", cfg |-> config])
  /\ lastClose' = NoClose
  /\ UNCHANGED <<browser, config, now, windowTimeouts, timers, nextHandle,
                 removedQ, grace, enforce, removedTracked>>
  /\ UNCHANGED <<tabVars, cfgVars, logVars, restVars>>

\* after updateAllWindowBadges and getWindowCount: schedule the grace timer
OnCreatedSchedule ==
  /\ \E w \in DOMAIN created :
       /\ created[w].pc = "count"
       /\ LET cfg == created[w].cfg IN
          IF Cardinality(windows) > cfg.windowLimit /\ cfg.autoCloseWindows
          THEN /\ timers' = timers \cup
                   {[handle |-> nextHandle, wid |-> w,
                     due |-> now + cfg.windowGracePeriod]}
               /\ windowTimeouts' = MapSet(windowTimeouts, w, nextHandle)
               /\ nextHandle' = nextHandle + 1
          ELSE UNCHANGED <<timers, windowTimeouts, nextHandle>>
       /\ created' = MapDelete(created, w)
  /\ lastClose' = NoClose
  /\ UNCHANGED <<browser, config, now, recentWindows, removedQ, grace, enforce,
                 removedTracked>>
  /\ UNCHANGED <<tabVars, cfgVars, logVars, restVars>>

\* ---- chrome.windows.onRemoved listener

\* the slip of a window-removed listener that enforces the limit again
OnRemovedEnforcing ==
  /\ \E w \in removedQ : removedQ' = removedQ \ {w}
  /\ enforce' = IF enforce.pc = "idle" /\ windows # {}
                THEN [pc |-> "snapshot", cfg |-> config, todo |-> <<>>,
                      by |-> "forceCheck"]
                ELSE [enforce EXCEPT !.by = "removed"]
  /\ lastClose' = NoClose
  /\ UNCHANGED <<browser, config, now, tracking, created, grace, removedTracked>>
  /\ UNCHANGED <<tabVars, cfgVars, logVars, restVars>>

\* the slip of dropping the map entry and leaving the timer running
OnRemovedCleanupNoClear(w) ==
  /\ recentWindows' = MapDelete(recentWindows, w)
  /\ windowTimeouts' = MapDelete(windowTimeouts, w)
  /\ UNCHANGED timers

\* recentWindows.delete; clearTimeout and windowTimeouts.delete when a
\* timeoutId is stored
OnRemovedCleanup(w) ==
  /\ recentWindows' = MapDelete(recentWindows, w)
  /\ IF w \in DOMAIN windowTimeouts
     THEN /\ timers' = { t \in timers : t.handle # windowTimeouts[w] }
          /\ windowTimeouts' = MapDelete(windowTimeouts, w)
     ELSE UNCHANGED <<timers, windowTimeouts>>

OnRemoved ==
  /\ \E w \in removedQ :
       /\ removedQ' = removedQ \ {w}
       /\ IF ~config.enabled
          THEN UNCHANGED <<recentWindows, windowTimeouts, timers>>
          ELSE OnRemovedCleanup(w)
  /\ lastClose' = NoClose
  /\ UNCHANGED <<browser, config, now, nextHandle, created, grace, enforce,
                 removedTracked>>
  /\ UNCHANGED <<tabVars, cfgVars, logVars, restVars>>

\* ---- the grace timer: closeSpecificWindowAfterGrace

\* the timer fires at or after its due time; the callback reads the
\* configuration and returns at once when disabled
GraceFire ==
  /\ \E t \in timers :
       /\ now >= t.due
       /\ timers' = timers \ {t}
       /\ IF ~config.enabled \/ ~config.autoCloseWindows
          THEN UNCHANGED grace
          ELSE grace' = MapSet(grace, t.wid, [pc |-> "getAll", cfg |-> config])
  /\ lastClose' = NoClose
  /\ UNCHANGED <<browser, config, now, recentWindows, windowTimeouts, nextHandle,
                 created, removedQ, enforce, removedTracked>>
  /\ UNCHANGED <<tabVars, cfgVars, logVars, restVars>>

\* the slip of trusting the decision taken when the timer was set: the
\* target is removed without looking at the count and the focus again
GraceCheckTrusting ==
  /\ \E w \in DOMAIN grace :
       /\ grace[w].pc = "getAll"
       /\ LET cfg == grace[w].cfg IN
          IF w \notin windows
          THEN /\ recentWindows' = MapDelete(recentWindows, w)
               /\ windowTimeouts' = MapDelete(windowTimeouts, w)
               /\ grace' = MapDelete(grace, w)
               /\ lastClose' = NoClose
               /\ UNCHANGED <<browser, removedQ, removedTracked>>
          ELSE /\ WindowGone(w)
               /\ lastClose' = CloseRecord(w, "grace", cfg)
               /\ grace' = MapSet(grace, w, [pc |-> "removing", cfg |-> cfg])
               /\ UNCHANGED <<recentWindows, windowTimeouts>>
  /\ UNCHANGED <<config, now, timers, nextHandle, created, enforce>>
  /\ UNCHANGED <<tabVars, cfgVars, logVars, restVars>>

\* chrome.windows.getAll resolves: the three guards, then windows.remove
GraceCheck ==
  /\ \E w \in DOMAIN grace :
       /\ grace[w].pc = "getAll"
       /\ LET cfg == grace[w].cfg IN
          IF \/ w \notin windows
             \/ Cardinality(windows) <= cfg.windowLimit
             \/ focused = w
          THEN /\ recentWindows' = MapDelete(recentWindows, w)
               /\ windowTimeouts' = MapDelete(windowTimeouts, w)
               /\ grace' = MapDelete(grace, w)
               /\ lastClose' = NoClose
               /\ UNCHANGED <<browser, removedQ, removedTracked>>
          ELSE /\ WindowGone(w)
               /\ lastClose' = CloseRecord(w, "grace", cfg)
               /\ grace' = MapSet(grace, w, [pc |-> "removing", cfg |-> cfg])
               /\ UNCHANGED <<recentWindows, windowTimeouts>>
  /\ UNCHANGED <<config, now, timers, nextHandle, created, enforce>>
  /\ UNCHANGED <<tabVars, cfgVars, logVars, restVars>>

\* windows.remove resolved: "Cleanup tracking"
GraceCleanup ==
  /\ \E w \in DOMAIN grace :
       /\ grace[w].pc = "removing"
       /\ recentWindows' = MapDelete(recentWindows, w)
       /\ windowTimeouts' = MapDelete(windowTimeouts, w)
       /\ grace' = MapDelete(grace, w)
  /\ lastClose' = NoClose
  /\ UNCHANGED <<browser, config, now, timers, nextHandle, created, removedQ,
                 enforce, removedTracked>>
  /\ UNCHANGED <<tabVars, cfgVars, logVars, restVars>>

\* ---- forceCheck: enforceWindowLimit

\* the popup's forceCheck message reaches enforceWindowLimit: getConfig and
\* the enabled / autoCloseWindows guard
ForceCheck ==
  /\ enforce.pc = "idle"
  /\ enforce' = IF ~config.enabled \/ ~config.autoCloseWindows
                THEN IdlePass
                ELSE [pc |-> "snapshot", cfg |-> config, todo |-> <<>>,
                      by |-> "forceCheck"]
  /\ lastClose' = NoClose
  /\ UNCHANGED <<browser, config, now, tracking, created, removedQ, grace,
                 removedTracked>>
  /\ UNCHANGED <<tabVars, cfgVars, logVars, restVars>>

\* the slip of leaving out the focus filter
WindowsToCloseFocusedToo(ws, foc, limit) ==
  LET closableWindows == SortDescending(ws)
  IN Slice(closableWindows, Min(Cardinality(ws) - limit, Len(closableWindows)))

\* the slip of sorting the candidates oldest first
WindowsToCloseOldestFirst(ws, foc, limit) ==
  LET closableWindows == SortAscending(ws \ {foc})
  IN Slice(closableWindows, Min(Cardinality(ws) - limit, Len(closableWindows)))

\* windowsToClose of enforceWindowLimit over the snapshot (ws, foc)
WindowsToClose(ws, foc, limit) ==
  LET closableWindows == SortDescending(ws \ {foc})
  IN Slice(closableWindows, Min(Cardinality(ws) - limit, Len(closableWindows)))

\* chrome.windows.getAll resolves: the plan, and the first windows.remove
EnforceSnapshot ==
  /\ enforce.pc = "snapshot"
  /\ LET cfg  == enforce.cfg
         plan == WindowsToClose(windows, focused, cfg.windowLimit)
     IN IF Cardinality(windows) <= cfg.windowLimit \/ plan = <<>>
        THEN /\ enforce' = IdlePass
             /\ lastClose' = [NoClose EXCEPT
                               !.seen = windows, !.foc = focused,
                               !.limit = cfg.windowLimit, !.atSnapshot = TRUE,
                               !.warned = Cardinality(windows) > cfg.windowLimit]
             /\ UNCHANGED <<browser, removedQ, removedTracked>>
        ELSE /\ WindowGone(Head(plan))
             /\ lastClose' = [CloseRecord(Head(plan), enforce.by, cfg)
                                EXCEPT !.atSnapshot = TRUE]
             /\ enforce' = IF Tail(plan) = <<>> THEN IdlePass
                           ELSE [pc |-> "closing", cfg |-> cfg, todo |-> Tail(plan),
                                 by |-> enforce.by]
  /\ UNCHANGED <<config, now, tracking, created, grace>>
  /\ UNCHANGED <<tabVars, cfgVars, logVars, restVars>>

\* after the pause: the next windows.remove; a window that is gone throws,
\* which the loop catches
EnforceCloseNext ==
  /\ enforce.pc = "closing"
  /\ LET w == Head(enforce.todo) IN
     IF w \in windows
     THEN /\ WindowGone(w)
          /\ lastClose' = CloseRecord(w, enforce.by, enforce.cfg)
     ELSE /\ lastClose' = NoClose
          /\ UNCHANGED <<browser, removedQ, removedTracked>>
  /\ enforce' = IF Tail(enforce.todo) = <<>> THEN IdlePass
                ELSE [enforce EXCEPT !.todo = Tail(@)]
  /\ UNCHANGED <<config, now, tracking, created, grace>>
  /\ UNCHANGED <<tabVars, cfgVars, logVars, restVars>>

Next ==
  \/ OpenWindow
  \/ UserCloseWindow
  \/ FocusWindow
  \/ SaveConfig
  \/ Tick
  \/ OnCreatedTrack
  \/ OnCreatedSchedule
  \/ OnRemoved
  \/ GraceFire
  \/ GraceCheck
  \/ GraceCleanup
  \/ ForceCheck
  \/ EnforceSnapshot
  \/ EnforceCloseNext

\* -------------------------------------------------------- claims on Spec

\* C1: whenever the extension issues chrome.windows.remove, the target is
\* not the focused window at that moment, under every interleaving.
C1_NeverClosesFocusedWindow ==
  lastClose.by # "none" => ~lastClose.wasFocused

\* C5: the grace timer never closes a window whose age, by its timestamp in
\* recentWindows, is below the windowGracePeriod of the configuration the
\* closing callback read.
C5_NeverClosedWithinGrace ==
  lastClose.by = "grace" => ~lastClose.early

Quiescent(w) ==
  /\ w \notin removedQ
  /\ w \notin DOMAIN created
  /\ w \notin DOMAIN grace

\* C6: once a window that was removed while tracked (its timer not yet fired)
\* has no listener in flight any more, neither map holds its id and no live
\* timer is left for it.
C6_RemovedWindowLeavesNoTracking ==
  \A w \in removedTracked :
    Quiescent(w) =>
      /\ w \notin DOMAIN recentWindows
      /\ w \notin DOMAIN windowTimeouts
      /\ \A t \in timers : t.wid # w

C21_GraceCloseRechecked ==
  lastClose.by = "grace" =>
    /\ lastClose.wid \in DOMAIN grace
    /\ grace[lastClose.wid].pc = "removing"
    /\ grace[lastClose.wid].cfg.enabled
    /\ grace[lastClose.wid].cfg.autoCloseWindows
    /\ lastClose.wid \in lastClose.seen
    /\ Cardinality(lastClose.seen) > grace[lastClose.wid].cfg.windowLimit
    /\ lastClose.foc # lastClose.wid
    /\ windows = lastClose.seen \ {lastClose.wid}

\* the callback closed its target while another window had the focus
C21_Witness ==
  /\ lastClose.by = "grace"
  /\ lastClose.foc \in windows

\* C22: once a window's grace timer has fired and its callback has
\* returned, windowTimeouts holds no entry for the window. (An entry is
\* stored together with its timer and deleted together with clearTimeout,
\* so an entry whose timer is neither live nor running its callback is the
\* entry of a timer that fired and whose callback returned.)
C22_FiredTimerLeavesNoTracking ==
  \A w \in DOMAIN windowTimeouts :
    \/ \E t \in timers : t.handle = windowTimeouts[w]
    \/ w \in DOMAIN grace


\* C34: whenever a grace timer or an enforcement pass removes a window,
\* the number of normal windows just before the removal is above the
\* windowLimit the handler read.
C34_NeverClosesAtOrBelowWindowLimit ==
  lastClose.by \in {"grace", "forceCheck"} =>
    Cardinality(lastClose.seen) > lastClose.limit

\* ------------------------------------------------ configuration resolver

\* {...a, ...b}
Merge(a, b) ==
  [k \in DOMAIN a \cup DOMAIN b |-> IF k \in DOMAIN b THEN b[k] ELSE a[k]]

Restrict(m, keys) == [k \in DOMAIN m \cap keys |-> m[k]]

\* the fields of DEFAULT_CONFIG the resolver is followed on: one the policy
\* schema can set (tabLimit) and one it cannot (enabled)
ConfigKeys == {"enabled", "tabLimit"}

DerivedKeys == {"isManaged", "allowUserConfig", "enforceSettings"}

DEFAULT_CONFIG ==
  [k \in ConfigKeys |-> IF k = "enabled" THEN TRUE ELSE DEFAULT_TAB_LIMIT]

TabLimitValues == {DEFAULT_TAB_LIMIT, 10}

\* a key left out, or set to one of its values
Optional(key, values) ==
  {EmptyMap} \cup { [k \in {key} |-> v] : v \in values }

\* what chrome.storage.sync can hold, and what a caller can submit
LocalStores ==
  { Merge(a, b) : a \in Optional("enabled", BOOLEAN),
                  b \in Optional("tabLimit", TabLimitValues) }

\* what the administrator can set, by schema.json
ManagedStores ==
  { Merge(Merge(a, b), c) : a \in Optional("tabLimit", TabLimitValues),
                            b \in Optional("allowUserConfig", BOOLEAN),
                            c \in Optional("enforceSettings", BOOLEAN) }

Flags(isManaged, allowUserConfig, enforceSettings) ==
  [k \in DerivedKeys |->
     IF k = "isManaged" THEN isManaged
     ELSE IF k = "allowUserConfig" THEN allowUserConfig
     ELSE enforceSettings]

\* loadEnterpriseConfig: the managed store, {} when the read throws
LoadEnterpriseConfig(managed, fails) == IF fails THEN EmptyMap ELSE managed

\* chrome.storage.sync.get(DEFAULT_CONFIG): the stored values of the default
\* keys over the defaults
SyncGet(local) == Merge(DEFAULT_CONFIG, Restrict(local, ConfigKeys))

\* getEffectiveConfig, given what its two reads returned
GetEffectiveConfig(enterpriseConfig, local) ==
  LET effectiveConfig == Merge(DEFAULT_CONFIG, SyncGet(local))
  IN IF DOMAIN enterpriseConfig # {}
     THEN Merge(Merge(effectiveConfig, enterpriseConfig),
                Flags(TRUE,
                      ~("allowUserConfig" \in DOMAIN enterpriseConfig
                         /\ enterpriseConfig["allowUserConfig"] = FALSE),
                      "enforceSettings" \in DOMAIN enterpriseConfig
                         /\ enterpriseConfig["enforceSettings"] = TRUE))
     ELSE Merge(effectiveConfig, Flags(FALSE, TRUE, FALSE))

\* getConfig: getEffectiveConfig, and on a throw (the sync read failed)
\* { ...DEFAULT_CONFIG, isManaged: false, allowUserConfig: true }
GetConfigResult(managed, local, managedFails, syncFails) ==
  IF syncFails
  THEN Merge(DEFAULT_CONFIG,
             [k \in {"isManaged", "allowUserConfig"} |-> k = "allowUserConfig"])
  ELSE GetEffectiveConfig(LoadEnterpriseConfig(managed, managedFails), local)

NoGet == [called |-> FALSE, result |-> EmptyMap, syncFailed |-> FALSE,
          managedFailed |-> FALSE]

NoSave == [called |-> FALSE, locked |-> FALSE, result |-> FALSE,
           before |-> EmptyMap, managed |-> FALSE, submitted |-> EmptyMap]

CfgIdle ==
  /\ managedStore = EmptyMap
  /\ localStore = EmptyMap
  /\ lastGet = NoGet
  /\ lastSave = NoSave

\* a fresh install under any policy
CfgInit ==
  /\ managedStore \in ManagedStores
  /\ localStore = EmptyMap
  /\ lastGet = NoGet
  /\ lastSave = NoSave

\* a getConfig call; either read may throw
GetConfig ==
  /\ \E managedFails, syncFails \in BOOLEAN :
       lastGet' = [called |-> TRUE,
                   result |-> GetConfigResult(managedStore, localStore,
                                              managedFails, syncFails),
                   syncFailed |-> syncFails,
                   managedFailed |-> managedFails]
  /\ lastSave' = NoSave
  /\ UNCHANGED <<managedStore, localStore>>
  /\ UNCHANGED <<tabVars, winVars, logVars, restVars>>

\* the saveConfig of the variant without policy: it always writes
SaveOutcomeUnguarded(current, managed, local, submitted, setFails) ==
  IF setFails
  THEN [result |-> FALSE, store |-> local]
  ELSE [result |-> TRUE, store |-> Merge(local, submitted)]

\* saveConfig after its getEffectiveConfig returned `current`: the value it
\* returns and the local store it leaves
SaveOutcome(current, managed, local, submitted, setFails) ==
  IF current["isManaged"] /\ current["enforceSettings"]
  THEN [result |-> FALSE, store |-> local]
  ELSE LET toWrite == IF current["isManaged"] /\ ~current["allowUserConfig"]
                      THEN Merge(submitted, managed)
                      ELSE submitted
       IN IF setFails
          THEN [result |-> FALSE, store |-> local]
          ELSE [result |-> TRUE, store |-> Merge(local, toWrite)]

\* the saveConfig message: saveConfig(request.config); success is its result.
\* A throw of the sync read inside getEffectiveConfig is caught: false.
SaveConfigMessage ==
  /\ \E submitted \in LocalStores :
     \E managedFails, syncGetFails, secondReadFails, setFails \in BOOLEAN :
       IF syncGetFails
       THEN /\ lastSave' = [called |-> TRUE, locked |-> FALSE, result |-> FALSE,
                            before |-> localStore, managed |-> FALSE,
                            submitted |-> submitted]
            /\ UNCHANGED localStore
       ELSE LET enterprise == LoadEnterpriseConfig(managedStore, managedFails)
                current == GetEffectiveConfig(enterprise, localStore)
                out == SaveOutcome(current,
                                   LoadEnterpriseConfig(managedStore, secondReadFails),
                                   localStore, submitted, setFails)
            IN /\ localStore' = out.store
               /\ lastSave' = [called |-> TRUE,
                               locked |-> current["isManaged"]
                                            /\ current["enforceSettings"],
                               result |-> out.result,
                               before |-> localStore,
                               managed |-> current["isManaged"],
                               submitted |-> submitted]
  /\ lastGet' = NoGet
  /\ UNCHANGED managedStore
  /\ UNCHANGED <<tabVars, winVars, logVars, restVars>>

CfgNext == GetConfig \/ SaveConfigMessage

\* ------------------------------------------------------------ activity log

\* the slip of slice(-MAX_LOG_ENTRIES): the newest entry is the one dropped
AddEntryKeepOldest(log, entry) ==
  LET l == <<entry>> \o log
  IN IF Len(l) > MAX_LOG_ENTRIES THEN SubSeq(l, 2, Len(l)) ELSE l

\* addLogEntry: unshift, then slice(0, MAX_LOG_ENTRIES) when too long
AddEntry(log, entry) ==
  LET l == <<entry>> \o log
  IN IF Len(l) > MAX_LOG_ENTRIES THEN Slice(l, MAX_LOG_ENTRIES) ELSE l

LogIdle ==
  /\ activityLog = <<>>
  /\ appended = <<>>
  /\ logSeq = 0

\* any handler logging an event
AddLogEntry ==
  /\ logSeq < MaxLogAppends
  /\ LET entry == [id |-> logSeq + 1, type |-> "info"] IN
     /\ activityLog' = AddEntry(activityLog, entry)
     /\ appended' = Append(appended, entry)
  /\ logSeq' = logSeq + 1
  /\ UNCHANGED <<tabVars, winVars, cfgVars, restVars>>

\* the clearLog message: activityLog = [], then addLogEntry('Activity log
\* cleared', 'action')
ClearLog ==
  /\ logSeq < MaxLogAppends
  /\ LET entry == [id |-> logSeq + 1, type |-> "action"] IN
     /\ activityLog' = AddEntry(<<>>, entry)
     /\ appended' = <<entry>>
  /\ logSeq' = logSeq + 1
  /\ UNCHANGED <<tabVars, winVars, cfgVars, restVars>>

LogNext == AddLogEntry \/ ClearLog

\* ------------------------------------------------------ immediate strategy

ImmConfigs ==
  [enabled : BOOLEAN, autoCloseWindows : BOOLEAN,
   windowLimit : 1..MaxImmWindowLimit, windowGracePeriod : {1}]

\* initializeExtension (onStartup, onInstalled) up to its badge refresh:
\* getConfig and the enabled guard
Initialize ==
  /\ enforce.pc = "idle"
  /\ enforce' = IF ~config.enabled
                THEN IdlePass
                ELSE [pc |-> "badge", cfg |-> config, todo |-> <<>>,
                      by |-> "initialize"]
  /\ lastClose' = NoClose
  /\ UNCHANGED <<browser, config, now, tracking, created, removedQ, grace,
                 removedTracked>>
  /\ UNCHANGED <<tabVars, cfgVars, logVars, restVars>>

\* initializeExtension after updateAllWindowBadges: it calls
\* enforceWindowLimit, which reads the configuration again
InitializeEnforce ==
  /\ enforce.pc = "badge"
  /\ enforce' = IF ~config.enabled \/ ~config.autoCloseWindows
                THEN IdlePass
                ELSE [pc |-> "snapshot", cfg |-> config, todo |-> <<>>,
                      by |-> "initialize"]
  /\ lastClose' = NoClose
  /\ UNCHANGED <<browser, config, now, tracking, created, removedQ, grace,
                 removedTracked>>
  /\ UNCHANGED <<tabVars, cfgVars, logVars, restVars>>

ImmNext ==
  \/ Initialize
  \/ InitializeEnforce
  \/ ForceCheck
  \/ EnforceSnapshot
  \/ EnforceCloseNext
  \/ UserCloseWindow
  \/ FocusWindow
  \/ OnRemoved

\* ---------------------------------------------------- the forceCheck command

FcConfigs ==
  [enabled : BOOLEAN, autoClose : BOOLEAN, autoCloseWindows : BOOLEAN,
   tabLimit : {1}, windowLimit : {1}, windowGracePeriod : {MaxGrace}]

NoForceCheck ==
  [pc |-> "idle", queue |-> <<>>, snapshot |-> {}, responded |-> FALSE]

FcIdle ==
  /\ fc = NoForceCheck
  /\ tabsOf = EmptyMap
  /\ tabCalls = EmptyMap

\* the tabs a window can hold: ids 1..n, the newest pinned or not
FcTabSets ==
  { { [id |-> i, pinned |-> (p /\ i = n)] : i \in 1..n } :
      n \in 1..MaxFcTabs, p \in BOOLEAN }

\* the slip of calling without await: the caller goes on at once
NotAwaited(settled) == TRUE

\* `await call()`: the caller resumes once the call has settled
Awaited(settled) == settled

\* the forceCheck message arrives: chrome.windows.getAll, the normal windows
FcReceive ==
  /\ fc.pc = "idle"
  /\ ~fc.responded
  /\ fc' = [pc |-> IF windows = {} THEN "callWindows" ELSE "callTab",
            queue |-> SortAscending(windows), snapshot |-> windows,
            responded |-> FALSE]
  /\ lastClose' = NoClose
  /\ UNCHANGED <<browser, config, now, tracking, created, removedQ, grace,
                 enforce, removedTracked>>
  /\ UNCHANGED <<tabsOf, tabCalls>>
  /\ UNCHANGED <<tabVars, cfgVars, logVars, restButFc>>

\* the loop calls enforceTabLimit(window.id), with no new-tab id
FcCallTab ==
  /\ fc.pc = "callTab"
  /\ tabCalls' = MapSet(tabCalls, Head(fc.queue),
                        [pc |-> "running", seen |-> {}, limit |-> 0,
                         todo |-> <<>>, closed |-> <<>>])
  /\ fc' = [fc EXCEPT !.pc = "awaitTab"]
  /\ lastClose' = NoClose
  /\ UNCHANGED <<browser, config, now, tracking, created, removedQ, grace,
                 enforce, removedTracked>>
  /\ UNCHANGED tabsOf
  /\ UNCHANGED <<tabVars, cfgVars, logVars, restButFc>>

\* enforceTabLimit(w) up to its close loop: getConfig, the guards,
\* chrome.tabs.query (empty for a window that is gone), the plan
FcTabPlan ==
  /\ \E w \in DOMAIN tabCalls :
       /\ tabCalls[w].pc = "running"
       /\ LET ts == IF w \in windows THEN tabsOf[w] ELSE {}
              plan == TabsToClose(ts, NoTab, config.tabLimit)
          IN tabCalls' = [tabCalls EXCEPT ![w] =
               IF \/ ~config.enabled \/ ~config.autoClose
                  \/ Cardinality(ts) <= config.tabLimit
                  \/ plan = <<>>
               THEN [@ EXCEPT !.pc = "done"]
               ELSE [pc |-> "closing", seen |-> ts, limit |-> config.tabLimit,
                     todo |-> plan, closed |-> <<>>]]
  /\ lastClose' = NoClose
  /\ UNCHANGED <<browser, config, now, tracking, created, removedQ, grace,
                 enforce, removedTracked>>
  /\ UNCHANGED <<fc, tabsOf>>
  /\ UNCHANGED <<tabVars, cfgVars, logVars, restButFc>>

\* one turn of the close loop of enforceTabLimit(w)
FcTabClose ==
  /\ \E w \in DOMAIN tabCalls :
       /\ tabCalls[w].pc = "closing"
       /\ LET id == Head(tabCalls[w].todo)
              gone == w \notin windows \/ id \notin TabIds(tabsOf[w])
          IN /\ tabsOf' = IF gone THEN tabsOf
                          ELSE [tabsOf EXCEPT ![w] = { t \in @ : t.id # id }]
             /\ tabCalls' = [tabCalls EXCEPT
                  ![w].todo = Tail(@),
                  ![w].closed = IF gone THEN @ ELSE Append(@, id),
                  ![w].pc = IF Tail(tabCalls[w].todo) = <<>> THEN "done"
                            ELSE "closing"]
  /\ lastClose' = NoClose
  /\ UNCHANGED <<browser, config, now, tracking, created, removedQ, grace,
                 enforce, removedTracked>>
  /\ UNCHANGED fc
  /\ UNCHANGED <<tabVars, cfgVars, logVars, restButFc>>

\* `await enforceTabLimit(window.id)` resumes: the next window, or on
FcAwaitTab ==
  /\ fc.pc = "awaitTab"
  /\ Awaited(tabCalls[Head(fc.queue)].pc = "done")
  /\ fc' = [fc EXCEPT !.queue = Tail(@),
                      !.pc = IF Tail(fc.queue) = <<>> THEN "callWindows"
                             ELSE "callTab"]
  /\ lastClose' = NoClose
  /\ UNCHANGED <<browser, config, now, tracking, created, removedQ, grace,
                 enforce, removedTracked>>
  /\ UNCHANGED <<tabsOf, tabCalls>>
  /\ UNCHANGED <<tabVars, cfgVars, logVars, restButFc>>

\* the handler calls enforceWindowLimit: getConfig and its guard
FcCallWindows ==
  /\ fc.pc = "callWindows"
  /\ enforce.pc = "idle"
  /\ enforce' = IF ~config.enabled \/ ~config.autoCloseWindows
                THEN IdlePass
                ELSE [pc |-> "snapshot", cfg |-> config, todo |-> <<>>,
                      by |-> "forceCheck"]
  /\ fc' = [fc EXCEPT !.pc = "awaitWindows"]
  /\ lastClose' = NoClose
  /\ UNCHANGED <<browser, config, now, tracking, created, removedQ, grace,
                 removedTracked>>
  /\ UNCHANGED <<tabsOf, tabCalls>>
  /\ UNCHANGED <<tabVars, cfgVars, logVars, restButFc>>

\* `await enforceWindowLimit()` resumes; the badge refresh and the log entry
\* follow
FcAwaitWindows ==
  /\ fc.pc = "awaitWindows"
  /\ Awaited(enforce.pc = "idle")
  /\ fc' = [fc EXCEPT !.pc = "respond"]
  /\ lastClose' = NoClose
  /\ UNCHANGED <<browser, config, now, tracking, created, removedQ, grace,
                 enforce, removedTracked>>
  /\ UNCHANGED <<tabsOf, tabCalls>>
  /\ UNCHANGED <<tabVars, cfgVars, logVars, restButFc>>

\* sendResponse({ success: true })
FcRespond ==
  /\ fc.pc = "respond"
  /\ fc' = [fc EXCEPT !.pc = "idle", !.responded = TRUE]
  /\ lastClose' = NoClose
  /\ UNCHANGED <<browser, config, now, tracking, created, removedQ, grace,
                 enforce, removedTracked>>
  /\ UNCHANGED <<tabsOf, tabCalls>>
  /\ UNCHANGED <<tabVars, cfgVars, logVars, restButFc>>

ForceNext ==
  \/ FcReceive
  \/ FcCallTab
  \/ FcTabPlan
  \/ FcTabClose
  \/ FcAwaitTab
  \/ FcCallWindows
  \/ FcAwaitWindows
  \/ FcRespond
  \/ EnforceSnapshot
  \/ EnforceCloseNext
  \/ UserCloseWindow
  \/ FocusWindow
  \/ OnRemoved

\* ---------------------------------------------------- warning-view strategy

WarnIdle ==
  /\ warned = {}
  /\ confirm = EmptyMap

\* the slip of closing only when the user confirmed
ShouldCloseIfConfirmed(exists, confirmed) == exists /\ confirmed

\* handleWindowCloseConfirmation: `if (window)`; confirmed is never read
ShouldClose(exists, confirmed) == exists

\* showWindowLimitAlertAndClose(w): the guards, then the first tab is sent to
\* the warning page; when that throws, the fallback closes w unless focused
ShowWarning ==
  /\ \E w \in windows \ warned :
     \E updateFails \in BOOLEAN :
       IF \/ ~config.enabled \/ ~config.autoCloseWindows
          \/ Cardinality(windows) <= config.windowLimit
       THEN /\ UNCHANGED <<browser, removedQ, removedTracked, warned>>
            /\ lastClose' = NoClose
       ELSE IF ~updateFails
       THEN /\ warned' = warned \cup {w}
            /\ UNCHANGED <<browser, removedQ, removedTracked>>
            /\ lastClose' = NoClose
       ELSE IF focused # w
       THEN /\ WindowGone(w)
            /\ lastClose' = CloseRecord(w, "fallback", config)
            /\ UNCHANGED warned
       ELSE /\ UNCHANGED <<browser, removedQ, removedTracked, warned>>
            /\ lastClose' = NoClose
  /\ UNCHANGED <<config, now, tracking, created, grace, enforce, confirm>>
  /\ UNCHANGED <<tabVars, cfgVars, logVars, restButWarn>>

\* a closeWindowConfirmed{windowId, confirmed} command arrives for an open
\* window: from its warning page (countdown, button, Escape) or any sender
CloseWindowConfirmed ==
  /\ \E w \in windows \ DOMAIN confirm :
     \E confirmed \in BOOLEAN :
       confirm' = MapSet(confirm, w,
                         [confirmed |-> confirmed, pc |-> "get", closed |-> FALSE])
  /\ lastClose' = NoClose
  /\ UNCHANGED <<browser, config, now, tracking, created, removedQ, grace,
                 enforce, removedTracked, warned>>
  /\ UNCHANGED <<tabVars, cfgVars, logVars, restButWarn>>

\* chrome.windows.get(windowId) resolves, or throws when the window is gone
ConfirmGet ==
  /\ \E w \in DOMAIN confirm :
       /\ confirm[w].pc = "get"
       /\ confirm' = [confirm EXCEPT ![w].pc =
                        IF ShouldClose(w \in windows, confirm[w].confirmed)
                        THEN "remove" ELSE "done"]
  /\ lastClose' = NoClose
  /\ UNCHANGED <<browser, config, now, tracking, created, removedQ, grace,
                 enforce, removedTracked, warned>>
  /\ UNCHANGED <<tabVars, cfgVars, logVars, restButWarn>>

\* chrome.windows.remove(windowId); a window gone by now throws into the catch
ConfirmRemove ==
  /\ \E w \in DOMAIN confirm :
       /\ confirm[w].pc = "remove"
       /\ IF w \in windows
          THEN /\ WindowGone(w)
               /\ lastClose' = CloseRecord(w, "confirm", config)
               /\ confirm' = [confirm EXCEPT ![w].pc = "done", ![w].closed = TRUE]
          ELSE /\ UNCHANGED <<browser, removedQ, removedTracked>>
               /\ lastClose' = NoClose
               /\ confirm' = [confirm EXCEPT ![w].pc = "done"]
  /\ UNCHANGED <<config, now, tracking, created, grace, enforce, warned>>
  /\ UNCHANGED <<tabVars, cfgVars, logVars, restButWarn>>

WarnNext ==
  \/ ShowWarning
  \/ CloseWindowConfirmed
  \/ ConfirmGet
  \/ ConfirmRemove
  \/ UserCloseWindow
  \/ FocusWindow
  \/ OnRemoved

\* -------------------- the configuration commands (src/background.js)

NoReply == [action |-> "none", success |-> FALSE, setFailed |-> FALSE,
            submitted |-> EmptyMap, config |-> EmptyMap]

MsgIdle == reply = NoReply

\* getConfig of src/background.js: the stored keys over DEFAULT_CONFIG, and
\* DEFAULT_CONFIG alone when the read throws
GetConfigBasic(local, getFails) ==
  IF getFails THEN DEFAULT_CONFIG ELSE Merge(DEFAULT_CONFIG, local)

\* saveConfig of src/background.js: chrome.storage.sync.set(config); a
\* rejection is caught and written to the console, and nothing is returned
SaveConfigBasic(local, submitted, setFails) ==
  IF setFails THEN local ELSE Merge(local, submitted)

\* case 'getConfig' of handleMessage
GetConfigCommand ==
  /\ \E getFails \in BOOLEAN :
       reply' = [NoReply EXCEPT !.action = "getConfig", !.success = TRUE,
                                !.config = GetConfigBasic(localStore, getFails)]
  /\ UNCHANGED cfgVars
  /\ UNCHANGED <<tabVars, winVars, logVars, restButMsg>>

\* case 'saveConfig' of handleMessage: await saveConfig(request.config),
\* await updateAllWindowBadges() (which never throws), sendResponse
SaveConfigCommand ==
  /\ \E submitted \in LocalStores, setFails \in BOOLEAN :
       /\ localStore' = SaveConfigBasic(localStore, submitted, setFails)
       /\ reply' = [NoReply EXCEPT !.action = "saveConfig", !.success = TRUE,
                                   !.setFailed = setFails,
                                   !.submitted = submitted]
  /\ UNCHANGED <<managedStore, lastGet, lastSave>>
  /\ UNCHANGED <<tabVars, winVars, logVars, restButMsg>>

MsgNext == GetConfigCommand \/ SaveConfigCommand

\* ------------------------------------- the badge (updateAllWindowBadges)

\* a popup window holds one tab, a normal window one or more
WindowKinds ==
  {[type |-> "popup", tabCount |-> 1]}
    \cup [type : {"normal"}, tabCount : 1..MaxBadgeTabs]

BadgeWindowSets ==
  UNION { [S -> WindowKinds] : S \in SUBSET (1..MaxBadgeWindowId) }

\* the stored limits; DEFAULT_CONFIG gives a second pair
BadgeLimits == [tabLimit : {2}, windowLimit : {2}]

\* what getConfig returns when the read throws
BadgeDefaults ==
  [tabLimit |-> DEFAULT_TAB_LIMIT, windowLimit |-> DEFAULT_WINDOW_LIMIT]

NoRefresh == [pc |-> "idle", snapshot |-> EmptyMap, todo |-> <<>>,
              stats |-> <<>>]

NoBadge == [text |-> <<>>, color |-> "none"]

\* no refresh ended in the step just taken; otherwise whether it ran to its
\* last statement, whether an exception left it, the windows (id -> type)
\* its getAll returned, the windowStats it built and the limits it read
NoRefreshDone == [completed |-> FALSE, propagated |-> FALSE,
                  snapshot |-> EmptyMap, stats |-> <<>>,
                  cfg |-> BadgeDefaults]

BdgIdle ==
  /\ allWindows = EmptyMap
  /\ limits = BadgeDefaults
  /\ refresh = NoRefresh
  /\ badge = NoBadge
  /\ lastRefresh = NoRefreshDone

\* the ids getAllWindowTabCounts iterates: window.type === 'normal'
NormalWindowIds(all) ==
  SortAscending({ w \in DOMAIN all : all[w].type = "normal" })

\* windowStats.reduce((sum, stat) => sum + stat.tabCount, 0)
RECURSIVE TotalTabs(_)
TotalTabs(stats) ==
  IF stats = <<>> THEN 0
  ELSE Head(stats).tabCount + TotalTabs(Tail(stats))

\* totalTabs.toString(): the decimal digits, most significant first
RECURSIVE ToString(_)
ToString(n) ==
  IF n < 10 THEN <<n>> ELSE ToString(n \div 10) \o <<n % 10>>

\* the slip of flagging a window count that is at the limit
BadgeColorAtLimit(stats, cfg) ==
  LET hasExcessTabs ==
        \E i \in 1..Len(stats) : stats[i].tabCount > cfg.tabLimit
      hasExcessWindows == Len(stats) >= cfg.windowLimit
  IN IF hasExcessTabs \/ hasExcessWindows THEN "#ff4444" ELSE "#44ff44"

\* badgeColor of updateAllWindowBadges
BadgeColor(stats, cfg) ==
  LET hasExcessTabs ==
        \E i \in 1..Len(stats) : stats[i].tabCount > cfg.tabLimit
      hasExcessWindows == Len(stats) > cfg.windowLimit
  IN IF hasExcessTabs \/ hasExcessWindows THEN "#ff4444" ELSE "#44ff44"

\* getAllWindowTabCounts up to its loop: chrome.windows.getAll; when it
\* throws the catch returns []
RefreshGetAll ==
  /\ refresh.pc = "idle"
  /\ \E getAllFails \in BOOLEAN :
       IF getAllFails
       THEN refresh' = [NoRefresh EXCEPT !.pc = "config"]
       ELSE LET todo == NormalWindowIds(allWindows) IN
            refresh' = [pc |-> IF todo = <<>> THEN "config" ELSE "counting",
                        snapshot |-> [w \in DOMAIN allWindows |->
                                        allWindows[w].type],
                        todo |-> todo,
                        stats |-> <<>>]
  /\ lastRefresh' = NoRefreshDone
  /\ UNCHANGED <<allWindows, limits, badge>>
  /\ UNCHANGED <<tabVars, winVars, cfgVars, logVars, restButBdg>>

\* one turn of the loop: getTabCount(window.id), 0 when the query throws or
\* the window is gone, and windowStats.push
RefreshGetTabCount ==
  /\ refresh.pc = "counting"
  /\ \E queryFails \in BOOLEAN :
       LET w == Head(refresh.todo)
           tabCount == IF queryFails \/ w \notin DOMAIN allWindows THEN 0
                       ELSE allWindows[w].tabCount
           rest == Tail(refresh.todo)
       IN refresh' = [refresh EXCEPT
                        !.pc = IF rest = <<>> THEN "config" ELSE "counting",
                        !.todo = rest,
                        !.stats = Append(@, [windowId |-> w,
                                             tabCount |-> tabCount])]
  /\ lastRefresh' = NoRefreshDone
  /\ UNCHANGED <<allWindows, limits, badge>>
  /\ UNCHANGED <<tabVars, winVars, cfgVars, logVars, restButBdg>>

\* the rest of updateAllWindowBadges: getConfig (DEFAULT_CONFIG when the
\* read throws), setBadgeText, setBadgeBackgroundColor; a throw of either
\* call is caught by the function's own catch
RefreshSet ==
  /\ refresh.pc = "config"
  /\ \E getFails \in BOOLEAN, thrownAt \in {"none", "text", "color"} :
       LET cfg == IF getFails THEN BadgeDefaults ELSE limits
           text == ToString(TotalTabs(refresh.stats))
           color == BadgeColor(refresh.stats, cfg)
       IN /\ badge' = IF thrownAt = "text" THEN badge
                      ELSE IF thrownAt = "color"
                           THEN [badge EXCEPT !.text = text]
                           ELSE [text |-> text, color |-> color]
          /\ lastRefresh' = [completed |-> (thrownAt = "none"),
                             propagated |-> FALSE,
                             snapshot |-> refresh.snapshot,
                             stats |-> refresh.stats,
                             cfg |-> cfg]
  /\ refresh' = NoRefresh
  /\ UNCHANGED <<allWindows, limits>>
  /\ UNCHANGED <<tabVars, winVars, cfgVars, logVars, restButBdg>>

\* the user opens a tab in a normal window
BadgeTabOpened ==
  /\ \E w \in DOMAIN allWindows :
       /\ allWindows[w].type = "normal"
       /\ allWindows[w].tabCount < MaxBadgeTabs
       /\ allWindows' = [allWindows EXCEPT ![w].tabCount = @ + 1]
  /\ lastRefresh' = NoRefreshDone
  /\ UNCHANGED <<limits, refresh, badge>>
  /\ UNCHANGED <<tabVars, winVars, cfgVars, logVars, restButBdg>>

\* the user closes a window
BadgeWindowClosed ==
  /\ \E w \in DOMAIN allWindows : allWindows' = MapDelete(allWindows, w)
  /\ lastRefresh' = NoRefreshDone
  /\ UNCHANGED <<limits, refresh, badge>>
  /\ UNCHANGED <<tabVars, winVars, cfgVars, logVars, restButBdg>>

BadgeNext ==
  \/ RefreshGetAll
  \/ RefreshGetTabCount
  \/ RefreshSet
  \/ BadgeTabOpened
  \/ BadgeWindowClosed

\* ------------------------ showWindowLimitAlertAndClose, await by await

NoShowCall == [wid |-> NoWindow, pc |-> "idle", cfg |-> <<>>, count |-> 0]

\* no call ended in the step just taken; otherwise its window, how it
\* ended, the configuration and count it read, the parameters of the
\* warning URL, and for the fallback whether chrome.windows.get found the
\* window, whether it was focused, whether remove was called and whether
\* it removed the window
NoShow == [wid |-> NoWindow, outcome |-> "none", cfg |-> <<>>, count |-> 0,
           params |-> <<>>, existed |-> FALSE, wasFocused |-> FALSE,
           attempted |-> FALSE, closed |-> FALSE]

ShowIdle ==
  /\ show = NoShowCall
  /\ lastShow = NoShow

\* the slip of passing the two numbers in each other's place
WarningParamsSwapped(cfg, windowCount, windowId) ==
  [limit |-> windowCount, current |-> cfg.windowLimit, windowId |-> windowId]

\* the query string of warningPageUrl
WarningParams(cfg, windowCount, windowId) ==
  [limit |-> cfg.windowLimit, current |-> windowCount, windowId |-> windowId]

\* the slip of closing whatever the focus is
FallbackClosesAlways(exists, isFocused) == exists

\* the fallback's decision after chrome.windows.get: `if (!window.focused)`;
\* a window that is gone makes get throw, which is swallowed
FallbackCloses(exists, isFocused) == exists /\ ~isFocused

\* the call for window w, up to its first await: getConfig and the guard
ShowStart ==
  /\ show.pc = "idle"
  /\ \E w \in (1..MaxWindowId) \ warned :
       IF ~config.enabled \/ ~config.autoCloseWindows
       THEN /\ show' = NoShowCall
            /\ lastShow' = [NoShow EXCEPT !.wid = w, !.outcome = "skipped",
                                          !.cfg = config]
       ELSE /\ show' = [wid |-> w, pc |-> "count", cfg |-> config, count |-> 0]
            /\ lastShow' = NoShow
  /\ lastClose' = NoClose
  /\ UNCHANGED <<browser, config, now, tracking, created, removedQ, grace,
                 enforce, removedTracked, warnVars>>
  /\ UNCHANGED <<tabVars, cfgVars, logVars, fcVars, msgVars, bdgVars, extraButShow>>

\* getWindowCount resolves (0 when its query throws): the limit guard
ShowCount ==
  /\ show.pc = "count"
  /\ \E countFails \in BOOLEAN :
       LET windowCount == IF countFails THEN 0 ELSE Cardinality(windows) IN
       IF windowCount <= show.cfg.windowLimit
       THEN /\ show' = NoShowCall
            /\ lastShow' = [NoShow EXCEPT !.wid = show.wid,
                                          !.outcome = "skipped",
                                          !.cfg = show.cfg,
                                          !.count = windowCount]
       ELSE /\ show' = [show EXCEPT !.pc = "query", !.count = windowCount]
            /\ lastShow' = NoShow
  /\ lastClose' = NoClose
  /\ UNCHANGED <<browser, config, now, tracking, created, removedQ, grace,
                 enforce, removedTracked, warnVars>>
  /\ UNCHANGED <<tabVars, cfgVars, logVars, fcVars, msgVars, bdgVars, extraButShow>>

\* chrome.tabs.query({windowId}) resolves: no tabs for a window that is
\* gone, or it throws into the catch
ShowQuery ==
  /\ show.pc = "query"
  /\ \E queryFails \in BOOLEAN :
       IF queryFails
       THEN /\ show' = [show EXCEPT !.pc = "fallback"]
            /\ lastShow' = NoShow
       ELSE IF show.wid \notin windows
       THEN /\ show' = NoShowCall
            /\ lastShow' = [NoShow EXCEPT !.wid = show.wid,
                                          !.outcome = "noTabs",
                                          !.cfg = show.cfg,
                                          !.count = show.count]
       ELSE /\ show' = [show EXCEPT !.pc = "update"]
            /\ lastShow' = NoShow
  /\ lastClose' = NoClose
  /\ UNCHANGED <<browser, config, now, tracking, created, removedQ, grace,
                 enforce, removedTracked, warnVars>>
  /\ UNCHANGED <<tabVars, cfgVars, logVars, fcVars, msgVars, bdgVars, extraButShow>>

\* chrome.tabs.update(firstTab.id, {url}) resolves, or throws (the tab went
\* with its window, or the navigation is refused) into the catch
ShowUpdate ==
  /\ show.pc = "update"
  /\ \E updateFails \in BOOLEAN :
       IF updateFails \/ show.wid \notin windows
       THEN /\ show' = [show EXCEPT !.pc = "fallback"]
            /\ lastShow' = NoShow
            /\ UNCHANGED warned
       ELSE /\ show' = NoShowCall
            /\ warned' = warned \cup {show.wid}
            /\ lastShow' = [NoShow EXCEPT
                              !.wid = show.wid, !.outcome = "redirected",
                              !.cfg = show.cfg, !.count = show.count,
                              !.params = WarningParams(show.cfg, show.count,
                                                       show.wid)]
  /\ lastClose' = NoClose
  /\ UNCHANGED <<browser, config, now, tracking, created, removedQ, grace,
                 enforce, removedTracked, confirm>>
  /\ UNCHANGED <<tabVars, cfgVars, logVars, fcVars, msgVars, bdgVars, extraButShow>>

\* the catch block: chrome.windows.get(windowId), then chrome.windows.remove
\* unless the window is focused; a throw of either is swallowed
ShowFallback ==
  /\ show.pc = "fallback"
  /\ \E removeFails \in BOOLEAN :
       LET w == show.wid
           exists == w \in windows
           isFocused == focused = w
           closes == FallbackCloses(exists, isFocused)
       IN /\ lastShow' = [NoShow EXCEPT
                            !.wid = w, !.outcome = "fallback",
                            !.cfg = show.cfg, !.count = show.count,
                            !.existed = exists, !.wasFocused = isFocused,
                            !.attempted = closes,
                            !.closed = closes /\ ~removeFails]
          /\ IF closes /\ ~removeFails
             THEN /\ WindowGone(w)
                  /\ lastClose' = CloseRecord(w, "fallback", show.cfg)
             ELSE /\ UNCHANGED <<browser, removedQ, removedTracked>>
                  /\ lastClose' = NoClose
  /\ show' = NoShowCall
  /\ UNCHANGED <<config, now, tracking, created, grace, enforce, warnVars>>
  /\ UNCHANGED <<tabVars, cfgVars, logVars, fcVars, msgVars, bdgVars, extraButShow>>

ShowNext ==
  \/ ShowStart
  \/ ShowCount
  \/ ShowQuery
  \/ ShowUpdate
  \/ ShowFallback
  \/ UserCloseWindow
  \/ FocusWindow
  \/ OnRemoved
  \/ SaveConfig

\* ------------------------------ the warning page script (part_000)

\* the values of windowGracePeriod tried, in ms
PageGraces == {g * HALF_SECOND : g \in 0..MaxPageGraceSteps}

NoPage == [pc |-> "closed", windowId |-> NoWindow, grace |-> 0,
           responded |-> FALSE, start |-> 0, countdown |-> 0,
           running |-> FALSE, sent |-> <<>>]

PageIdle == page = NoPage

\* Math.ceil(ms / 1000) for ms >= 0
CeilSeconds(ms) == (ms + MS_PER_SECOND - 1) \div MS_PER_SECOND

\* the message of closeWindow(), with the path that called it
Confirmation(windowId, path) ==
  [action |-> "closeWindowConfirmed", windowId |-> windowId,
   confirmed |-> TRUE, path |-> path]

\* lines 16-25: 5 unless the getConfig answer succeeded and its
\* windowGracePeriod is truthy
StartCountdown(responded, gracePeriod) ==
  IF responded /\ gracePeriod # 0
  THEN CeilSeconds(gracePeriod)
  ELSE DEFAULT_COUNTDOWN

\* the getConfig message resolves (or throws); setInterval and the click
\* and keydown listeners are installed
PageLoad ==
  /\ page.pc = "loading"
  /\ \E responded \in BOOLEAN :
       page' = [page EXCEPT
                  !.pc = "counting",
                  !.responded = responded,
                  !.start = StartCountdown(responded, page.grace),
                  !.countdown = StartCountdown(responded, page.grace),
                  !.running = TRUE]
  /\ UNCHANGED <<tabVars, winVars, cfgVars, logVars, restButExtra, extraButPage>>

\* the interval callback: countdown--, and at zero clearInterval and
\* closeWindow()
PageTick ==
  /\ page.pc = "counting"
  /\ page.running
  /\ LET c == page.countdown - 1 IN
       page' = [page EXCEPT
                  !.countdown = c,
                  !.running = ~(c <= 0),
                  !.sent = IF c <= 0
                           THEN Append(@, Confirmation(page.windowId, "expiry"))
                           ELSE @]
  /\ UNCHANGED <<tabVars, winVars, cfgVars, logVars, restButExtra, extraButPage>>

\* the click listener of closeBtn: clearInterval and closeWindow()
PageClick ==
  /\ page.pc = "counting"
  /\ Len(page.sent) < MaxPageSends
  /\ page' = [page EXCEPT
                 !.running = FALSE,
                 !.sent = Append(@, Confirmation(page.windowId, "click"))]
  /\ UNCHANGED <<tabVars, winVars, cfgVars, logVars, restButExtra, extraButPage>>

\* the keydown listener on Escape: clearInterval and closeWindow()
PageEscape ==
  /\ page.pc = "counting"
  /\ Len(page.sent) < MaxPageSends
  /\ page' = [page EXCEPT
                 !.running = FALSE,
                 !.sent = Append(@, Confirmation(page.windowId, "escape"))]
  /\ UNCHANGED <<tabVars, winVars, cfgVars, logVars, restButExtra, extraButPage>>

\* sendMessage resolved or threw: window.close()
PageClose ==
  /\ page.pc = "counting"
  /\ page.sent # <<>>
  /\ page' = [page EXCEPT !.pc = "gone"]
  /\ UNCHANGED <<tabVars, winVars, cfgVars, logVars, restButExtra, extraButPage>>

PageNext ==
  \/ PageLoad
  \/ PageTick
  \/ PageClick
  \/ PageEscape
  \/ PageClose

\* -------------- getTabCount, getAllWindowTabCounts, getWindowCount

\* the call in flight: the windows getAll returned (id -> type), the
\* normal ones still to count, the windowStats built so far and, entry by
\* entry, what its tab query did
NoStatCall == [pc |-> "idle", snapshot |-> EmptyMap, todo |-> <<>>,
               stats |-> <<>>, queries |-> <<>>]

\* no call returned in the step just taken; otherwise which function,
\* whether its getAll threw, the windows getAll returned, the value
\* returned and what the tab queries did
NoStat == [fn |-> "none", getAllFailed |-> FALSE, snapshot |-> EmptyMap,
           stats |-> <<>>, queries |-> <<>>, count |-> 0]

StatIdle ==
  /\ stat = NoStatCall
  /\ lastStat = NoStat

\* the slip of letting one throwing query end the list
StatsAfterQueryAborting(rest, queryFails) ==
  IF queryFails THEN <<>> ELSE rest

\* the windows left to count after a query: getTabCount catches its own
\* throw, so the loop goes on
StatsAfterQuery(rest, queryFails) == rest

\* getAllWindowTabCounts up to its loop; when getAll throws the catch
\* returns []
StatsGetAll ==
  /\ stat.pc = "idle"
  /\ \E getAllFails \in BOOLEAN :
       LET todo == NormalWindowIds(allWindows)
           snapshot == [w \in DOMAIN allWindows |-> allWindows[w].type]
       IN IF getAllFails \/ todo = <<>>
          THEN /\ stat' = NoStatCall
               /\ lastStat' = [NoStat EXCEPT
                                 !.fn = "getAllWindowTabCounts",
                                 !.getAllFailed = getAllFails,
                                 !.snapshot = IF getAllFails THEN EmptyMap
                                              ELSE snapshot]
          ELSE /\ stat' = [NoStatCall EXCEPT !.pc = "counting",
                                             !.snapshot = snapshot,
                                             !.todo = todo]
               /\ lastStat' = NoStat
  /\ UNCHANGED bdgVars
  /\ UNCHANGED <<tabVars, winVars, cfgVars, logVars, restButExtra, extraButStat>>

\* one turn of the loop: getTabCount(window.id), 0 when the query throws,
\* and windowStats.push; after the last turn the list is returned
StatsGetTabCount ==
  /\ stat.pc = "counting"
  /\ \E queryFails \in BOOLEAN :
       LET w == Head(stat.todo)
           found == IF w \in DOMAIN allWindows THEN allWindows[w].tabCount
                    ELSE 0
           tabCount == IF queryFails THEN 0 ELSE found
           rest == StatsAfterQuery(Tail(stat.todo), queryFails)
           stats == Append(stat.stats, [windowId |-> w, tabCount |-> tabCount])
           queries == Append(stat.queries, [windowId |-> w,
                                            failed |-> queryFails,
                                            found |-> found])
       IN IF rest = <<>>
          THEN /\ stat' = NoStatCall
               /\ lastStat' = [NoStat EXCEPT
                                 !.fn = "getAllWindowTabCounts",
                                 !.snapshot = stat.snapshot,
                                 !.stats = stats,
                                 !.queries = queries]
          ELSE /\ stat' = [stat EXCEPT !.todo = rest, !.stats = stats,
                                       !.queries = queries]
               /\ lastStat' = NoStat
  /\ UNCHANGED bdgVars
  /\ UNCHANGED <<tabVars, winVars, cfgVars, logVars, restButExtra, extraButStat>>

\* getWindowCount: the normal windows of getAll, 0 when it throws
GetWindowCount ==
  /\ \E getAllFails \in BOOLEAN :
       lastStat' = [NoStat EXCEPT
                      !.fn = "getWindowCount",
                      !.getAllFailed = getAllFails,
                      !.snapshot = IF getAllFails THEN EmptyMap
                                   ELSE [w \in DOMAIN allWindows |->
                                           allWindows[w].type],
                      !.count = IF getAllFails THEN 0
                                ELSE Len(NormalWindowIds(allWindows))]
  /\ UNCHANGED <<stat, bdgVars>>
  /\ UNCHANGED <<tabVars, winVars, cfgVars, logVars, restButExtra, extraButStat>>

StatNext ==
  \/ StatsGetAll
  \/ StatsGetTabCount
  \/ GetWindowCount
  \/ BadgeTabOpened
  \/ BadgeWindowClosed

\* ------- updateAllWindowBadges calls overlapping (every browser call
\* ------- succeeds, the extension is enabled)

RaceWindowSets ==
  { ws \in BadgeWindowSets :
      /\ DOMAIN ws \subseteq 1..MaxRaceWindowId
      /\ \A w \in DOMAIN ws : ws[w].tabCount <= MaxRaceTabs }

RaceIdle ==
  /\ calls = <<>>
  /\ pendingEvents = 0

\* the user opens a tab in a normal window: tabs.onCreated is dispatched
RaceTabOpened ==
  /\ \E w \in DOMAIN allWindows :
       /\ allWindows[w].type = "normal"
       /\ allWindows[w].tabCount < MaxRaceTabs
       /\ allWindows' = [allWindows EXCEPT ![w].tabCount = @ + 1]
  /\ pendingEvents' = pendingEvents + 1
  /\ UNCHANGED <<limits, refresh, badge, lastRefresh, calls>>
  /\ UNCHANGED <<tabVars, winVars, cfgVars, logVars, warnVars, fcVars, msgVars, extraButRace>>

\* the user closes a window: windows.onRemoved is dispatched
RaceWindowClosed ==
  /\ \E w \in DOMAIN allWindows : allWindows' = MapDelete(allWindows, w)
  /\ pendingEvents' = pendingEvents + 1
  /\ UNCHANGED <<limits, refresh, badge, lastRefresh, calls>>
  /\ UNCHANGED <<tabVars, winVars, cfgVars, logVars, warnVars, fcVars, msgVars, extraButRace>>

\* a listener reaches `await updateAllWindowBadges()` and the call's
\* chrome.windows.getAll resolves
RaceGetAll ==
  /\ pendingEvents > 0
  /\ \E s \in DOMAIN calls :
       /\ calls[s].pc = "idle"
       /\ LET todo == NormalWindowIds(allWindows) IN
          calls' = [calls EXCEPT ![s] =
                      [pc |-> IF todo = <<>> THEN "config" ELSE "counting",
                       snapshot |-> [w \in DOMAIN allWindows |->
                                       allWindows[w].type],
                       todo |-> todo,
                       stats |-> <<>>]]
  /\ pendingEvents' = pendingEvents - 1
  /\ UNCHANGED bdgVars
  /\ UNCHANGED <<tabVars, winVars, cfgVars, logVars, warnVars, fcVars, msgVars, extraButRace>>

\* one turn of a call's loop: getTabCount(window.id), no tabs for a window
\* that is gone
RaceGetTabCount ==
  /\ \E s \in DOMAIN calls :
       /\ calls[s].pc = "counting"
       /\ LET w == Head(calls[s].todo)
              tabCount == IF w \in DOMAIN allWindows
                          THEN allWindows[w].tabCount ELSE 0
              rest == Tail(calls[s].todo)
          IN calls' = [calls EXCEPT ![s] =
                         [@ EXCEPT
                            !.pc = IF rest = <<>> THEN "config" ELSE "counting",
                            !.todo = rest,
                            !.stats = Append(@, [windowId |-> w,
                                                 tabCount |-> tabCount])]]
  /\ UNCHANGED <<bdgVars, pendingEvents>>
  /\ UNCHANGED <<tabVars, winVars, cfgVars, logVars, warnVars, fcVars, msgVars, extraButRace>>

\* the rest of a call: getConfig, setBadgeText, setBadgeBackgroundColor
RaceSet ==
  /\ \E s \in DOMAIN calls :
       /\ calls[s].pc = "config"
       /\ badge' = [text |-> ToString(TotalTabs(calls[s].stats)),
                    color |-> BadgeColor(calls[s].stats, limits)]
       /\ calls' = [calls EXCEPT ![s] = NoRefresh]
  /\ UNCHANGED <<allWindows, limits, refresh, lastRefresh, pendingEvents>>
  /\ UNCHANGED <<tabVars, winVars, cfgVars, logVars, warnVars, fcVars, msgVars, extraButRace>>

RaceNext ==
  \/ RaceTabOpened
  \/ RaceWindowClosed
  \/ RaceGetAll
  \/ RaceGetTabCount
  \/ RaceSet

\* ------- the window engine over windows of any type: allWindows is the
\* ------- browser's directory, windows the normal ones among it

\* the slip of leaving the type test out
IsNormalAny(type) == TRUE

\* window.type === 'normal'
IsNormal(type) == type = "normal"

\* allWindows.filter((window) => window.type === 'normal'), as ids
NormalOf(all) == { w \in DOMAIN all : IsNormal(all[w].type) }

\* what the browser does when window w of any type goes away
KindGone(w) ==
  /\ allWindows' = MapDelete(allWindows, w)
  /\ windows' = windows \ {w}
  /\ focused' = IF focused = w THEN NoWindow ELSE focused
  /\ removedQ' = removedQ \cup {w}
  /\ UNCHANGED <<nextWindowId, removedTracked>>

\* a window of some type opens and windows.onCreated is dispatched
KindOpen ==
  /\ nextWindowId <= MaxKindWindowId
  /\ \E type \in {"normal", "popup"} :
       LET w == nextWindowId IN
       /\ allWindows' = MapSet(allWindows, w, [type |-> type, tabCount |-> 1])
       /\ windows' = IF type = "normal" THEN windows \cup {w} ELSE windows
       /\ focused' \in {focused, w}
       /\ created' = MapSet(created, w, [pc |-> "config", cfg |-> <<>>,
                                         type |-> type])
  /\ nextWindowId' = nextWindowId + 1
  /\ lastClose' = NoClose
  /\ UNCHANGED <<config, now, tracking, removedQ, grace, enforce, removedTracked>>
  /\ UNCHANGED <<limits, refresh, badge, lastRefresh>>
  /\ UNCHANGED <<tabVars, cfgVars, logVars, warnVars, fcVars, msgVars, extraVars>>

\* the onCreated listener up to its second await: getConfig, the enabled
\* guard, the type test, recentWindows.set
KindCreatedTrack ==
  /\ \E w \in DOMAIN created :
       /\ created[w].pc = "config"
       /\ IF ~config.enabled \/ ~IsNormal(created[w].type)
          THEN /\ created' = MapDelete(created, w)
               /\ UNCHANGED recentWindows
          ELSE /\ recentWindows' = MapSet(recentWindows, w, now)
               /\ created' = MapSet(created, w, [pc |-> "count", cfg |-> config,
                                                 type |-> created[w].type])
  /\ lastClose' = NoClose
  /\ UNCHANGED <<browser, config, now, windowTimeouts, timers, nextHandle,
                 removedQ, grace, enforce, removedTracked>>
  /\ UNCHANGED bdgVars
  /\ UNCHANGED <<tabVars, cfgVars, logVars, warnVars, fcVars, msgVars, extraVars>>

\* after updateAllWindowBadges and getWindowCount: the grace timer, which
\* the model lets fire at any later moment
KindCreatedSchedule ==
  /\ \E w \in DOMAIN created :
       /\ created[w].pc = "count"
       /\ LET cfg == created[w].cfg IN
          IF Cardinality(NormalOf(allWindows)) > cfg.windowLimit
             /\ cfg.autoCloseWindows
          THEN /\ timers' = timers \cup
                   {[handle |-> nextHandle, wid |-> w, due |-> now]}
               /\ windowTimeouts' = MapSet(windowTimeouts, w, nextHandle)
               /\ nextHandle' = nextHandle + 1
          ELSE UNCHANGED <<timers, windowTimeouts, nextHandle>>
       /\ created' = MapDelete(created, w)
  /\ lastClose' = NoClose
  /\ UNCHANGED <<browser, config, now, recentWindows, removedQ, grace, enforce,
                 removedTracked>>
  /\ UNCHANGED bdgVars
  /\ UNCHANGED <<tabVars, cfgVars, logVars, warnVars, fcVars, msgVars, extraVars>>

\* closeSpecificWindowAfterGrace after chrome.windows.getAll: the target
\* among the normal windows, their count, the focus, then windows.remove
KindGraceCheck ==
  /\ \E w \in DOMAIN grace :
       /\ grace[w].pc = "getAll"
       /\ LET cfg == grace[w].cfg
              normalWindows == NormalOf(allWindows)
          IN IF \/ w \notin normalWindows
                \/ Cardinality(normalWindows) <= cfg.windowLimit
                \/ focused = w
             THEN /\ recentWindows' = MapDelete(recentWindows, w)
                  /\ windowTimeouts' = MapDelete(windowTimeouts, w)
                  /\ grace' = MapDelete(grace, w)
                  /\ lastClose' = NoClose
                  /\ UNCHANGED <<browser, removedQ, removedTracked, allWindows>>
             ELSE /\ KindGone(w)
                  /\ lastClose' = CloseRecord(w, "grace", cfg)
                  /\ grace' = MapSet(grace, w, [pc |-> "removing", cfg |-> cfg])
                  /\ UNCHANGED <<recentWindows, windowTimeouts>>
  /\ UNCHANGED <<config, now, timers, nextHandle, created, enforce>>
  /\ UNCHANGED <<limits, refresh, badge, lastRefresh>>
  /\ UNCHANGED <<tabVars, cfgVars, logVars, warnVars, fcVars, msgVars, extraVars>>

\* enforceWindowLimit after chrome.windows.getAll: the normal windows, the
\* plan, and the first windows.remove
KindEnforceSnapshot ==
  /\ enforce.pc = "snapshot"
  /\ LET cfg  == enforce.cfg
         normalWindows == NormalOf(allWindows)
         plan == WindowsToClose(normalWindows, focused, cfg.windowLimit)
     IN IF Cardinality(normalWindows) <= cfg.windowLimit \/ plan = <<>>
        THEN /\ enforce' = IdlePass
             /\ lastClose' = NoClose
             /\ UNCHANGED <<browser, removedQ, removedTracked, allWindows>>
        ELSE /\ KindGone(Head(plan))
             /\ lastClose' = [CloseRecord(Head(plan), enforce.by, cfg)
                                EXCEPT !.atSnapshot = TRUE]
             /\ enforce' = IF Tail(plan) = <<>> THEN IdlePass
                           ELSE [pc |-> "closing", cfg |-> cfg, todo |-> Tail(plan),
                                 by |-> enforce.by]
  /\ UNCHANGED <<config, now, tracking, created, grace>>
  /\ UNCHANGED <<limits, refresh, badge, lastRefresh>>
  /\ UNCHANGED <<tabVars, cfgVars, logVars, warnVars, fcVars, msgVars, extraVars>>

\* after the pause: the next windows.remove of the plan
KindEnforceCloseNext ==
  /\ enforce.pc = "closing"
  /\ LET w == Head(enforce.todo) IN
     IF w \in DOMAIN allWindows
     THEN /\ KindGone(w)
          /\ lastClose' = CloseRecord(w, enforce.by, enforce.cfg)
     ELSE /\ lastClose' = NoClose
          /\ UNCHANGED <<browser, removedQ, removedTracked, allWindows>>
  /\ enforce' = IF Tail(enforce.todo) = <<>> THEN IdlePass
                ELSE [enforce EXCEPT !.todo = Tail(@)]
  /\ UNCHANGED <<config, now, tracking, created, grace>>
  /\ UNCHANGED <<limits, refresh, badge, lastRefresh>>
  /\ UNCHANGED <<tabVars, cfgVars, logVars, warnVars, fcVars, msgVars, extraVars>>

\* the user closes a window of any type
KindUserClose ==
  /\ \E w \in DOMAIN allWindows : KindGone(w)
  /\ lastClose' = NoClose
  /\ UNCHANGED <<config, now, tracking, created, grace, enforce>>
  /\ UNCHANGED <<limits, refresh, badge, lastRefresh>>
  /\ UNCHANGED <<tabVars, cfgVars, logVars, warnVars, fcVars, msgVars, extraVars>>

KindNext ==
  \/ KindOpen
  \/ KindCreatedTrack
  \/ KindCreatedSchedule
  \/ GraceFire
  \/ KindGraceCheck
  \/ GraceCleanup
  \/ ForceCheck
  \/ KindEnforceSnapshot
  \/ KindEnforceCloseNext
  \/ KindUserClose
  \/ FocusWindow
  \/ OnRemoved

\* ----------------------------------- the event listeners (src/background.js)

DspEvents == {"tabCreated", "tabRemoved", "tabAttached", "tabDetached",
              "windowRemoved", "focusChanged"}

NoRun == [event |-> "none", win |-> NoWindow, tab |-> NoTab, pc |-> "idle",
          enabled |-> FALSE, did |-> <<>>]

DspIdle ==
  /\ dspEnabled = TRUE
  /\ run = NoRun

\* one thing a listener did: a log entry, a badge refresh or an enforcer call
Step(kind, w, t) == [step |-> kind, windowId |-> w, tabId |-> t]

\* the addLogEntry(..., 'info') of a listener; onFocusChanged has none
ListenerLog(event, w) ==
  IF event = "focusChanged" THEN <<>> ELSE <<Step("info", w, NoTab)>>

\* the slip of handing the attached tab's id to the enforcer as well
EnforcerCallWithTabId(event, w, t) ==
  IF event \in {"tabCreated", "tabAttached"}
  THEN <<Step("enforceTabLimit", w, t)>>
  ELSE <<>>

\* what a listener calls after its badge refresh: enforceTabLimit(windowId,
\* tab.id) in onCreated, enforceTabLimit(newWindowId) in onAttached, nothing
\* in the other listeners
EnforcerCall(event, w, t) ==
  IF event = "tabCreated" THEN <<Step("enforceTabLimit", w, t)>>
  ELSE IF event = "tabAttached" THEN <<Step("enforceTabLimit", w, NoTab)>>
  ELSE <<>>

\* the browser dispatches an event; onFocusChanged may carry WINDOW_ID_NONE
DspReceive ==
  /\ run.pc = "idle"
  /\ \E event \in DspEvents, w \in 0..MaxDspWindowId, t \in 1..MaxDspTabId :
       /\ w = NoWindow => event = "focusChanged"
       /\ run' = [NoRun EXCEPT !.event = event, !.win = w, !.tab = t,
                               !.pc = "config"]
  /\ UNCHANGED dspEnabled
  /\ UNCHANGED <<tabVars, winVars, cfgVars, logVars, restButExtra, extraButDsp>>

\* up to the badge refresh: onFocusChanged returns on WINDOW_ID_NONE; every
\* listener reads the configuration and returns when disabled, else logs
DspGuard ==
  /\ run.pc = "config"
  /\ run' = IF run.event = "focusChanged" /\ run.win = NoWindow
            THEN [run EXCEPT !.pc = "done"]
            ELSE IF ~dspEnabled
            THEN [run EXCEPT !.pc = "done"]
            ELSE [run EXCEPT !.pc = "badge", !.enabled = TRUE,
                             !.did = @ \o ListenerLog(run.event, run.win)]
  /\ UNCHANGED dspEnabled
  /\ UNCHANGED <<tabVars, winVars, cfgVars, logVars, restButExtra, extraButDsp>>

\* await updateAllWindowBadges() resolves (it never throws); the enforcer
\* call, if the listener has one, follows and is awaited
DspBadge ==
  /\ run.pc = "badge"
  /\ run' = [run EXCEPT
               !.pc = "done",
               !.did = @ \o <<Step("badge", NoWindow, NoTab)>>
                         \o EnforcerCall(run.event, run.win, run.tab)]
  /\ UNCHANGED dspEnabled
  /\ UNCHANGED <<tabVars, winVars, cfgVars, logVars, restButExtra, extraButDsp>>

DspReturn ==
  /\ run.pc = "done"
  /\ run' = NoRun
  /\ UNCHANGED dspEnabled
  /\ UNCHANGED <<tabVars, winVars, cfgVars, logVars, restButExtra, extraButDsp>>

\* a saveConfig that turns the extension on or off
DspSaveConfig ==
  /\ dspEnabled' = ~dspEnabled
  /\ UNCHANGED run
  /\ UNCHANGED <<tabVars, winVars, cfgVars, logVars, restButExtra, extraButDsp>>

DspNext ==
  \/ DspReceive
  \/ DspGuard
  \/ DspBadge
  \/ DspReturn
  \/ DspSaveConfig

\* ------------------------------------------------------ the specifications
\* ------------------------------------------------------ the specifications

ExtraIdle == DspIdle /\ ShowIdle /\ PageIdle /\ StatIdle /\ RaceIdle

RestIdle == WarnIdle /\ FcIdle /\ MsgIdle /\ BdgIdle /\ ExtraIdle

\* any windows, one of them focused, any configuration; no call in flight
ShowInit ==
  /\ windows \in SUBSET (1..MaxWindowId) \ {{}}
  /\ focused \in windows
  /\ nextWindowId = MaxWindowId + 1
  /\ config \in Configs
  /\ now = 0
  /\ recentWindows = EmptyMap
  /\ windowTimeouts = EmptyMap
  /\ timers = {}
  /\ nextHandle = 1
  /\ created = EmptyMap
  /\ removedQ = {}
  /\ grace = EmptyMap
  /\ enforce = IdlePass
  /\ removedTracked = {}
  /\ lastClose = NoClose
  /\ TabIdle /\ CfgIdle /\ LogIdle /\ RestIdle

SpecShow == ShowInit /\ [][ShowNext]_vars

\* the page just opened on its warning URL, its getConfig message pending,
\* under any windowGracePeriod
PageInit ==
  /\ \E w \in 1..MaxPageWindowId, g \in PageGraces :
       page = [NoPage EXCEPT !.pc = "loading", !.windowId = w, !.grace = g]
  /\ TabIdle /\ WinIdle /\ CfgIdle /\ LogIdle
  /\ WarnIdle /\ FcIdle /\ MsgIdle /\ BdgIdle /\ DspIdle /\ ShowIdle
  /\ StatIdle /\ RaceIdle

SpecPage == PageInit /\ [][PageNext]_vars

\* any windows of either type, no call in flight
StatInit ==
  /\ allWindows \in BadgeWindowSets
  /\ limits = BadgeDefaults
  /\ refresh = NoRefresh
  /\ badge = NoBadge
  /\ lastRefresh = NoRefreshDone
  /\ TabIdle /\ WinIdle /\ CfgIdle /\ LogIdle /\ WarnIdle /\ FcIdle /\ MsgIdle
  /\ ExtraIdle

SpecStats == StatInit /\ [][StatNext]_vars

\* a few windows, the badge never set, no event pending
RaceInit ==
  /\ allWindows \in RaceWindowSets
  /\ limits \in BadgeLimits
  /\ refresh = NoRefresh
  /\ badge = NoBadge
  /\ lastRefresh = NoRefreshDone
  /\ calls = [s \in 1..MaxRefreshes |-> NoRefresh]
  /\ pendingEvents = 0
  /\ stat = NoStatCall /\ lastStat = NoStat
  /\ TabIdle /\ WinIdle /\ CfgIdle /\ LogIdle /\ WarnIdle /\ FcIdle /\ MsgIdle
  /\ DspIdle /\ ShowIdle /\ PageIdle

SpecBadgeRace == RaceInit /\ [][RaceNext]_vars

\* one normal window, focused; nothing tracked; any configuration
KindInit ==
  /\ allWindows = [w \in {1} |-> [type |-> "normal", tabCount |-> 1]]
  /\ windows = {1}
  /\ focused = 1
  /\ nextWindowId = 2
  /\ config \in Configs
  /\ now = 0
  /\ recentWindows = EmptyMap
  /\ windowTimeouts = EmptyMap
  /\ timers = {}
  /\ nextHandle = 1
  /\ created = EmptyMap
  /\ removedQ = {}
  /\ grace = EmptyMap
  /\ enforce = IdlePass
  /\ removedTracked = {}
  /\ lastClose = NoClose
  /\ limits = BadgeDefaults
  /\ refresh = NoRefresh
  /\ badge = NoBadge
  /\ lastRefresh = NoRefreshDone
  /\ TabIdle /\ CfgIdle /\ LogIdle /\ WarnIdle /\ FcIdle /\ MsgIdle /\ ExtraIdle

SpecKinds == KindInit /\ [][KindNext]_vars

\* the listeners on any event, the extension enabled or not
DspInit ==
  /\ dspEnabled \in BOOLEAN
  /\ run = NoRun
  /\ TabIdle /\ WinIdle /\ CfgIdle /\ LogIdle
  /\ WarnIdle /\ FcIdle /\ MsgIdle /\ BdgIdle /\ ShowIdle /\ PageIdle
  /\ StatIdle /\ RaceIdle

SpecDispatch == DspInit /\ [][DspNext]_vars

Init == WinInit /\ TabIdle /\ CfgIdle /\ LogIdle /\ RestIdle

Spec == Init /\ [][Next]_vars

TabInit == TabOnlyInit /\ WinIdle /\ CfgIdle /\ LogIdle /\ RestIdle

SpecTab == TabInit /\ [][TabNext]_vars

CfgSpecInit == CfgInit /\ TabIdle /\ WinIdle /\ LogIdle /\ RestIdle

SpecCfg == CfgSpecInit /\ [][CfgNext]_vars

LogInit == LogIdle /\ TabIdle /\ WinIdle /\ CfgIdle /\ RestIdle

SpecLog == LogInit /\ [][LogNext]_vars

\* any session: some windows open, one of them focused, any configuration
WarnInit ==
  /\ windows \in SUBSET (1..MaxWindowId) \ {{}}
  /\ focused \in windows
  /\ nextWindowId = MaxWindowId + 1
  /\ config \in Configs
  /\ now = 0
  /\ recentWindows = EmptyMap
  /\ windowTimeouts = EmptyMap
  /\ timers = {}
  /\ nextHandle = 1
  /\ created = EmptyMap
  /\ removedQ = {}
  /\ grace = EmptyMap
  /\ enforce = IdlePass
  /\ removedTracked = {}
  /\ lastClose = NoClose
  /\ TabIdle /\ CfgIdle /\ LogIdle /\ RestIdle

SpecWarn == WarnInit /\ [][WarnNext]_vars

\* ---- the grace-period engine left to itself after a window was opened

\* time passes between handler runs: a handler takes milliseconds, a grace
\* period seconds
QuietTick ==
  /\ created = EmptyMap
  /\ grace = EmptyMap
  /\ removedQ = {}
  /\ Tick

QuietNext ==
  \/ OnCreatedTrack
  \/ OnCreatedSchedule
  \/ QuietTick
  \/ GraceFire
  \/ GraceCheck
  \/ GraceCleanup
  \/ OnRemoved

\* the user has just opened the newest window, under any configuration;
\* its onCreated listener is about to run
QuietInit ==
  /\ \E n \in 2..MaxWindowId :
       /\ windows = 1..n
       /\ nextWindowId = n + 1
       /\ created = MapSet(EmptyMap, n, [pc |-> "config", cfg |-> <<>>])
  /\ focused \in windows
  /\ config \in Configs
  /\ now = 0
  /\ recentWindows = EmptyMap
  /\ windowTimeouts = EmptyMap
  /\ timers = {}
  /\ nextHandle = 1
  /\ removedQ = {}
  /\ grace = EmptyMap
  /\ enforce = IdlePass
  /\ removedTracked = {}
  /\ lastClose = NoClose
  /\ TabIdle /\ CfgIdle /\ LogIdle /\ RestIdle

\* every handler that can run does run, timers fire, and time passes
QuietFairness ==
  /\ WF_vars(OnCreatedTrack)
  /\ WF_vars(OnCreatedSchedule)
  /\ WF_vars(QuietTick)
  /\ WF_vars(GraceFire)
  /\ WF_vars(GraceCheck)
  /\ WF_vars(GraceCleanup)
  /\ WF_vars(OnRemoved)

SpecQuiet == QuietInit /\ [][QuietNext]_vars /\ QuietFairness

\* the configuration commands on any stored configuration
MsgInit ==
  /\ managedStore = EmptyMap
  /\ localStore \in LocalStores
  /\ lastGet = NoGet
  /\ lastSave = NoSave
  /\ reply = NoReply
  /\ TabIdle /\ WinIdle /\ LogIdle /\ WarnIdle /\ FcIdle /\ BdgIdle
  /\ ExtraIdle

\* any windows, any limits, the badge not yet set
BadgeInit ==
  /\ allWindows \in BadgeWindowSets
  /\ limits \in BadgeLimits
  /\ refresh = NoRefresh
  /\ badge = NoBadge
  /\ lastRefresh = NoRefreshDone
  /\ TabIdle /\ WinIdle /\ CfgIdle /\ LogIdle /\ WarnIdle /\ FcIdle /\ MsgIdle
  /\ ExtraIdle

SpecBadge == BadgeInit /\ [][BadgeNext]_vars

SpecSave == MsgInit /\ [][MsgNext]_vars

TabLiveInit == TabLiveOnlyInit /\ WinIdle /\ CfgIdle /\ LogIdle /\ RestIdle

SpecTabLive == TabLiveInit /\ [][TabLiveNext]_vars

SpecTabPin == TabLiveInit /\ [][TabPinNext]_vars

\* the service worker starts: any windows, any focus, any configuration
ImmInit ==
  /\ windows \in SUBSET (1..MaxImmWindowId) \ {{}}
  /\ focused \in windows \cup {NoWindow}
  /\ nextWindowId = MaxImmWindowId + 1
  /\ config \in ImmConfigs
  /\ now = 0
  /\ recentWindows = EmptyMap
  /\ windowTimeouts = EmptyMap
  /\ timers = {}
  /\ nextHandle = 1
  /\ created = EmptyMap
  /\ removedQ = {}
  /\ grace = EmptyMap
  /\ enforce = IdlePass
  /\ removedTracked = {}
  /\ lastClose = NoClose
  /\ TabIdle /\ CfgIdle /\ LogIdle /\ RestIdle

SpecImm == ImmInit /\ [][ImmNext]_vars

\* every window was just created: its timestamp is now, and the grace timer
\* of each window but the first is pending
ForceInit ==
  /\ windows \in SUBSET (1..MaxFcWindowId) \ {{}}
  /\ focused \in windows \cup {NoWindow}
  /\ nextWindowId = MaxFcWindowId + 1
  /\ config \in FcConfigs
  /\ now = 0
  /\ recentWindows = [w \in windows |-> 0]
  /\ windowTimeouts = [w \in windows \ {1} |-> w]
  /\ timers = { [handle |-> w, wid |-> w, due |-> MaxGrace] : w \in windows \ {1} }
  /\ nextHandle = MaxFcWindowId + 1
  /\ created = EmptyMap
  /\ removedQ = {}
  /\ grace = EmptyMap
  /\ enforce = IdlePass
  /\ removedTracked = {}
  /\ lastClose = NoClose
  /\ fc = NoForceCheck
  /\ tabsOf \in [windows -> FcTabSets]
  /\ tabCalls = EmptyMap
  /\ TabIdle /\ CfgIdle /\ LogIdle /\ WarnIdle /\ MsgIdle /\ BdgIdle
  /\ ExtraIdle

SpecForce == ForceInit /\ [][ForceNext]_vars

\* the forceCheck command with the enforcers switched on, every window
\* open and one of them focused, pinned tabs in the first window only
ForceFairInit ==
  /\ ForceInit
  /\ windows = 1..MaxFcWindowId
  /\ focused \in windows
  /\ \A w \in windows \ {1} : \A t \in tabsOf[w] : ~t.pinned
  /\ config.enabled /\ config.autoClose /\ config.autoCloseWindows

\* every handler whose awaited call has settled goes on; what the user
\* does is left open
ForceFairness ==
  /\ WF_vars(FcCallTab)
  /\ WF_vars(FcTabPlan)
  /\ WF_vars(FcTabClose)
  /\ WF_vars(FcAwaitTab)
  /\ WF_vars(FcCallWindows)
  /\ WF_vars(FcAwaitWindows)
  /\ WF_vars(FcRespond)
  /\ WF_vars(EnforceSnapshot)
  /\ WF_vars(EnforceCloseNext)
  /\ WF_vars(OnRemoved)

SpecForceFair == ForceFairInit /\ [][ForceNext]_vars /\ ForceFairness

\* ------------------------------------------------------ claims on SpecTab

UnpinnedIds(ts) == { t.id : t \in { u \in ts : ~u.pinned } }

PassExcess == Cardinality(tabPass.snapshot) - tabConfig.tabLimit

\* C2: the tabsToClose that a pass of enforceTabLimit computes holds only
\* tabs of its snapshot, and none of them is pinned in that snapshot, the
\* newly created tab included.
C2_NoPinnedTabInCloseBatch ==
  tabPass.ran =>
    \A i \in 1..Len(tabPass.plan) :
      /\ tabPass.plan[i] \in TabIds(tabPass.snapshot)
      /\ \A t \in tabPass.snapshot : t.id = tabPass.plan[i] => ~t.pinned

\* a pass whose new tab is pinned, and which closed other tabs
C2_Witness ==
  /\ tabPc = "done" /\ tabPass.ran
  /\ \E t \in tabPass.snapshot : t.id = newTabId /\ t.pinned
  /\ Len(tabPass.closed) >= 2

C8_EnforcedSaveRejected ==
  (lastSave.called /\ lastSave.locked) =>
    (~lastSave.result /\ localStore = lastSave.before)

\* a save was attempted under an enforced policy, after an earlier save
\* (made while the policy could not be read) had filled the local store
C8_Witness ==
  /\ lastSave.called
  /\ lastSave.locked
  /\ localStore # EmptyMap

\* C9: whatever getConfig returns, on success and on every failure path,
\* has every field defined, the three policy flags included, and each
\* field carries the managed value if there is one, else the locally
\* stored value if there is one, else the default.
C9_ResolvedConfigTotalWithPrecedence ==
  lastGet.called =>
    /\ (ConfigKeys \cup DerivedKeys) \subseteq DOMAIN lastGet.result
    /\ \A k \in ConfigKeys :
         lastGet.result[k] =
           IF k \in DOMAIN managedStore THEN managedStore[k]
           ELSE IF k \in DOMAIN localStore THEN localStore[k]
           ELSE DEFAULT_CONFIG[k]

\* C31: a saveConfig call that succeeded under a managed configuration
\* that is not enforcement-locked left, for every key of the administered
\* set, the administered value in the local store, whatever allowUserConfig
\* is and whatever was submitted.
C31_ManagedKeysOverwriteSubmitted ==
  (lastSave.called /\ lastSave.managed /\ ~lastSave.locked /\ lastSave.result) =>
    \A k \in DOMAIN managedStore :
      /\ k \in DOMAIN localStore
      /\ localStore[k] = managedStore[k]

\* C32: getConfig degrades source by source: when only the managed read
\* throws the result is the defaults under the local store with isManaged
\* false; when only the local read throws the result is the defaults under
\* the administered values with the flags the policy gives.
C32_ResolverDegradesPerSource ==
  lastGet.called =>
    /\ (lastGet.managedFailed /\ ~lastGet.syncFailed) =>
         lastGet.result = Merge(Merge(DEFAULT_CONFIG,
                                      Restrict(localStore, ConfigKeys)),
                                Flags(FALSE, TRUE, FALSE))
    /\ (lastGet.syncFailed /\ ~lastGet.managedFailed) =>
         lastGet.result = GetEffectiveConfig(managedStore, EmptyMap)

\* ------------------------------------------------------ claims on SpecLog

\* C10: after any sequence of addLogEntry and clearLog the log holds at
\* most MAX_LOG_ENTRIES entries, newest first: it is exactly the newest
\* MAX_LOG_ENTRIES of the entries appended since the last clear, in
\* reverse order of appending, so an overflow drops the oldest.
C10_LogBoundedNewestFirst ==
  /\ Len(activityLog) <= MAX_LOG_ENTRIES
  /\ Len(activityLog) = Min(Len(appended), MAX_LOG_ENTRIES)
  /\ \A i \in 1..Len(activityLog) :
       activityLog[i] = appended[Len(appended) - i + 1]
  /\ \A i \in 1..(Len(activityLog) - 1) :
       activityLog[i].id > activityLog[i + 1].id

\* the log is full and entries have been dropped from it
C10_Witness ==
  /\ Len(appended) > MAX_LOG_ENTRIES
  /\ Len(activityLog) = MAX_LOG_ENTRIES
  /\ activityLog[1].id = logSeq

\* ----------------------------------------------------- claims on SpecWarn

\* C11: once the handler of a closeWindowConfirmed command for a window has
\* finished, that window is closed, whether confirmed was true or false.
C11_ConfirmationAlwaysCloses ==
  \A w \in DOMAIN confirm : confirm[w].pc = "done" => w \notin windows

\* a warned window was closed by the handler of a command with confirmed false
C11_Witness ==
  \E w \in DOMAIN confirm :
    /\ confirm[w].pc = "done"
    /\ ~confirm[w].confirmed
    /\ confirm[w].closed
    /\ w \in warned

\* C37: the handler of a closeWindowConfirmed command closes a window only
\* if the enforcer has shown the warning view in that window; a command
\* naming another window closes nothing.
C37_ConfirmationClosesWarnedOnly ==
  lastClose.by = "confirm" => lastClose.wid \in warned

\* ------------------------------------------------------ claims on SpecImm

\* the snapshot step of an enforceWindowLimit pass that saw four normal
\* windows under windowLimit 3
FourWindowsLimitThree ==
  /\ lastClose.atSnapshot
  /\ Cardinality(lastClose.seen) = 4
  /\ lastClose.limit = 3

\* C12, as amended: with windowLimit 3 and four normal windows the pass
\* closes exactly one window, the newest non-focused one (the 4th when it is
\* not focused, the 3rd when the 4th is focused), and logs no "cannot close"
\* warning.
C12_FourWindowsCloseNewestUnfocused ==
  FourWindowsLimitThree =>
    /\ lastClose.by # "none"
    /\ lastClose.wid = SetMax(lastClose.seen \ {lastClose.foc})
    /\ lastClose.wid # lastClose.foc
    /\ ~lastClose.warned
    /\ enforce.pc = "idle"

\* the pass ran over four windows with the newest one focused, and closed
\* the next newest
C12_Witness ==
  /\ FourWindowsLimitThree
  /\ lastClose.foc = SetMax(lastClose.seen)
  /\ lastClose.by # "none"
  /\ lastClose.wid # SetMax(lastClose.seen)

\* C12, as stated: with windowLimit 3 and four normal windows, one
\* non-focused window is closed if the newest is not focused; if the newest
\* is the focused one the pass closes no window and logs a warning.
C12_FocusedNewestClosesNothing ==
  FourWindowsLimitThree =>
    IF lastClose.foc # SetMax(lastClose.seen)
    THEN lastClose.by # "none" /\ lastClose.wid # lastClose.foc
    ELSE lastClose.by = "none" /\ lastClose.warned

\* the windows a pass set out to close, as its snapshot step left them: the
\* one it removed and the ones still to do
Attempted ==
  IF lastClose.wid = NoWindow THEN <<>>
  ELSE <<lastClose.wid>> \o (IF enforce.pc = "closing" THEN enforce.todo
                              ELSE <<>>)

\* C23: a pass of enforceWindowLimit runs only under a configuration with
\* enabled and autoCloseWindows; over N normal windows it sets out to
\* close nothing when N <= windowLimit, and otherwise exactly
\* min(N - windowLimit, number of non-focused windows) windows, which are
\* the non-focused windows with the highest ids, in descending order; it
\* logs "cannot close any windows" exactly when it is over the limit and no
\* window is non-focused.
C23_ImmediatePassPlan ==
  /\ enforce.pc \in {"snapshot", "closing"} =>
       enforce.cfg.enabled /\ enforce.cfg.autoCloseWindows
  /\ lastClose.atSnapshot =>
       LET N      == Cardinality(lastClose.seen)
           nonFoc == lastClose.seen \ {lastClose.foc}
           att    == Attempted
           attSet == SeqToSet(att)
       IN /\ N <= lastClose.limit => att = <<>> /\ ~lastClose.warned
          /\ N > lastClose.limit =>
               /\ Len(att) = Min(N - lastClose.limit, Cardinality(nonFoc))
               /\ attSet \subseteq nonFoc
               /\ \A i \in 1..(Len(att) - 1) : att[i] > att[i + 1]
               /\ \A w \in nonFoc \ attSet : \A a \in attSet : w < a
               /\ lastClose.warned <=> nonFoc = {}
               /\ lastClose.warned => att = <<>>

\* a pass over four windows, two above the limit, with the newest focused:
\* it removes the third and has the second still to do
C23_Witness ==
  /\ lastClose.atSnapshot
  /\ Cardinality(lastClose.seen) = lastClose.limit + 2
  /\ lastClose.foc = SetMax(lastClose.seen)
  /\ Len(Attempted) = 2

\* C13: no chrome.windows.remove is issued by the enforcement pass that
\* initializeExtension starts.
C13_InitializeClosesNoWindow ==
  lastClose.by # "initialize"

\* ---------------------------------------------------- claims on SpecForce

\* enforceTabLimit has run to its end on every window of the handler's
\* snapshot
AllTabCallsDone ==
  \A w \in fc.snapshot : w \in DOMAIN tabCalls /\ tabCalls[w].pc = "done"

ForceSettled ==
  /\ fc.pc = "idle"
  /\ enforce.pc = "idle"
  /\ \A w \in DOMAIN tabCalls : tabCalls[w].pc = "done"
  /\ removedQ = {}

\* what a tab pass and a window pass have left to do, against the excess
\* of their snapshots
PassBounds ==
  /\ \A w \in DOMAIN tabCalls :
       LET c == tabCalls[w] IN
       c.seen # {} =>
         Len(c.closed) + Len(c.todo) <= Cardinality(c.seen) - c.limit
  /\ (lastClose.atSnapshot /\ lastClose.by # "none") =>
       1 + Len(enforce.todo) <= Cardinality(lastClose.seen) - lastClose.limit

\* a turn of a close loop takes one entry off its list, and the handling
\* of a window-removed event starts and changes no pass
PassSteps ==
  /\ \A w \in DOMAIN tabCalls :
       (tabCalls[w].pc = "closing" /\ tabCalls'[w] # tabCalls[w]) =>
         /\ Len(tabCalls'[w].todo) = Len(tabCalls[w].todo) - 1
         /\ tabCalls'[w].seen = tabCalls[w].seen
  /\ (enforce.pc = "closing" /\ enforce' # enforce) =>
       \/ enforce' = IdlePass
       \/ /\ enforce'.pc = "closing"
          /\ Len(enforce'.todo) = Len(enforce.todo) - 1
  /\ (removedQ' # removedQ /\ removedQ' \subseteq removedQ) =>
       /\ enforce' = enforce
       /\ tabCalls' = tabCalls
       /\ fc' = fc

\* C38: a tab pass attempts at most (tabCount - tabLimit) closures and a
\* window pass at most (windowCount - windowLimit), each planned from one
\* snapshot; the events of those closures start no further pass; and the
\* command that started the passes leads to a state where every pass has
\* ended and nothing is pending.
C38_PassesTerminate ==
  /\ []PassBounds
  /\ [][PassSteps]_vars
  /\ (fc.pc # "idle") ~> ForceSettled

\* the command has been answered after a tab pass closed tabs and the
\* window pass closed a window, and the removal events have been handled
C38_Witness ==
  /\ fc.responded
  /\ ForceSettled
  /\ \E w \in DOMAIN tabCalls : tabCalls[w].closed # <<>>
  /\ Cardinality(windows) < Cardinality(fc.snapshot)

\* ------------------------------------------- claims on SpecWarn, continued

\* C15: while the stored configuration has enabled = false the extension
\* issues no chrome.windows.remove, whatever events, timers and commands
\* arrive.
\* ---- claims on the tab pass in a live window (SpecTabLive)

\* C16: a close operation whose tab is already gone when the call is made
\* is treated as success: no error-type log entry is recorded for it.
C16_GoneTabLogsNoError ==
  lastTabClose.gone => lastTabClose.logged # "error"

Emitted(kind) ==
  Cardinality({ i \in 1..Len(tabPass.emitted) : tabPass.emitted[i] = kind })

\* C24: a pass that goes ahead emits exactly one warning entry, before
\* anything else, at most one notification, one action entry per tab it
\* closed and one error entry per close that threw; a throw does not stop
\* the batch: the tabs attempted and the tabs still to do make up the
\* whole of tabsToClose, and the pass ends only when all were attempted.
C24_ThrowLoggedBatchContinues ==
  tabPass.ran =>
    /\ tabPass.emitted[1] = "warning"
    /\ Emitted("warning") = 1
    /\ Emitted("notification") <= 1
    /\ Emitted("action") = Len(tabPass.closed)
    /\ Emitted("error") = Len(tabPass.attempted) - Len(tabPass.closed)
    /\ tabPass.attempted \o tabsToClose = tabPass.plan
    /\ tabPc = "done" => tabPass.attempted = tabPass.plan

\* a close threw, and a later tab of the batch was closed all the same
C24_Witness ==
  /\ tabPass.ran
  /\ Emitted("error") >= 1
  /\ lastTabClose.logged = "action"
  /\ Emitted("notification") = 1

\* C25: with a positive pauseBetweenClosures, every close attempt of a
\* pass that is followed by another attempt is followed by a pause first,
\* whether the attempt succeeded or threw, and the pass does not pause
\* after its last attempt.
C25_PauseBetweenAttempts ==
  tabPass.ran =>
    /\ \A i \in 1..(Len(tabPass.emitted) - 1) :
         tabPass.emitted[i] \in {"action", "error"}
           => tabPass.emitted[i + 1] = "pause"
    /\ tabPc = "done" =>
         tabPass.emitted[Len(tabPass.emitted)] # "pause"

\* C33: the extension removes a tab only from a window that holds more
\* than tabLimit tabs at the moment of the removal, also when the user
\* closes tabs while a pass is in its close loop.
C33_NeverClosesAtOrBelowLimit ==
  (lastTabClose.id # NoTab /\ ~lastTabClose.gone) =>
    lastTabClose.before > tabConfig.tabLimit

\* C35: no tab that is pinned at the moment of its removal is removed by
\* the extension, also when the user pinned it after the pass took its
\* snapshot.
C35_NeverClosesPinnedTab ==
  (lastTabClose.id # NoTab /\ ~lastTabClose.gone) => ~lastTabClose.wasPinned

\* ---- claims on the event listeners (SpecDispatch)

\* the positions of the enforcer calls among the things the listener did
\* the guards of showWindowLimitAlertAndClose, on what the call read
ShowGuardsHeld(s) ==
  /\ s.cfg.enabled
  /\ s.cfg.autoCloseWindows
  /\ s.count > s.cfg.windowLimit

\* C27: when showing the warning view failed, the fallback closes the
\* window exactly when chrome.windows.get finds it and finds it not
\* focused; a focused window is left open, and a failure of the fallback
\* ends the call like any other outcome
C27_FallbackClosesUnfocusedOnly ==
  lastShow.outcome = "fallback" =>
    /\ lastShow.attempted <=> (lastShow.existed /\ ~lastShow.wasFocused)
    /\ lastShow.closed => lastShow.attempted
    /\ lastShow.wasFocused => ~lastShow.closed
    /\ show = NoShowCall

C27_Witness ==
  /\ lastShow.outcome = "fallback"
  /\ lastShow.existed
  /\ ~lastShow.wasFocused
  /\ lastShow.closed
  /\ lastClose.by = "fallback"

\* C28: the call redirects only when the extension is enabled,
\* autoCloseWindows is on and the count it read exceeds the limit, with the
\* parameters limit = windowLimit, current = that count, windowId = W;
\* when a guard fails it neither redirects nor closes; a redirecting call
\* closes nothing
C28_RedirectOnlyOverLimit ==
  /\ lastShow.outcome = "redirected" =>
       /\ ShowGuardsHeld(lastShow)
       /\ lastShow.params = [limit |-> lastShow.cfg.windowLimit,
                             current |-> lastShow.count,
                             windowId |-> lastShow.wid]
       /\ ~lastShow.closed
       /\ lastShow.wid \in warned
  /\ (lastShow.outcome # "none" /\ ~ShowGuardsHeld(lastShow)) =>
       /\ lastShow.outcome = "skipped"
       /\ lastShow.params = <<>>
       /\ ~lastShow.closed

C28_Witness ==
  /\ lastShow.outcome = "redirected"
  /\ lastShow.count = 3
  /\ lastShow.cfg.windowLimit = 1

\* C29: for every windowGracePeriod >= 0 the page counts down from the
\* period converted to whole seconds; every confirmation is a
\* closeWindowConfirmed for the page's window id, sent on expiry, click or
\* Escape; once one was sent the countdown no longer runs
C29_CountdownFromGracePeriod ==
  (page.pc \in {"counting", "gone"}) =>
    /\ page.responded => page.start = CeilSeconds(page.grace)
    /\ \A i \in 1..Len(page.sent) :
         /\ page.sent[i].action = "closeWindowConfirmed"
         /\ page.sent[i].windowId = page.windowId
    /\ page.sent # <<>> => ~page.running
    /\ (page.countdown <= 0 /\ page.start > 0) => page.sent # <<>>

\* the normal windows among those the last call's getAll returned
StatNormal ==
  { w \in DOMAIN lastStat.snapshot : lastStat.snapshot[w] = "normal" }

\* C30: getAllWindowTabCounts returns one entry for each normal window
\* getAll gave it and none for another window; an entry whose tab query
\* threw has tabCount 0, every other entry has the count its own query
\* found; getWindowCount returns the number of normal windows
C30_OneEntryPerNormalWindow ==
  /\ (lastStat.fn = "getAllWindowTabCounts" /\ ~lastStat.getAllFailed) =>
       LET st == lastStat.stats
           q == lastStat.queries
       IN /\ { st[i].windowId : i \in 1..Len(st) } = StatNormal
          /\ Len(st) = Cardinality(StatNormal)
          /\ Len(q) = Len(st)
          /\ \A i \in 1..Len(st) :
               /\ q[i].windowId = st[i].windowId
               /\ st[i].tabCount = IF q[i].failed THEN 0 ELSE q[i].found
  /\ (lastStat.fn = "getWindowCount" /\ ~lastStat.getAllFailed) =>
       lastStat.count = Cardinality(StatNormal)

\* a popup and two normal windows; the query of the first normal window
\* threw and the second one's count came through
C30_Witness ==
  /\ lastStat.fn = "getAllWindowTabCounts"
  /\ \E w \in DOMAIN lastStat.snapshot : lastStat.snapshot[w] = "popup"
  /\ Len(lastStat.stats) = 2
  /\ lastStat.queries[1].failed
  /\ ~lastStat.queries[2].failed
  /\ lastStat.stats[1].tabCount = 0
  /\ lastStat.stats[2].tabCount = 3

EnforcerCalls ==
  { i \in 1..Len(run.did) :
      run.did[i].step \in {"enforceTabLimit", "enforceWindowLimit"} }

C17_SaveFailureReported ==
  reply.action = "saveConfig" =>
    /\ reply.setFailed => ~reply.success
    /\ reply.success =>
         \A k \in DOMAIN reply.submitted :
           k \in DOMAIN localStore /\ localStore[k] = reply.submitted[k]

\* ---- claims on the engine left to itself (SpecQuiet)

\* C19: with enabled and autoCloseWindows set, whenever there are more
\* normal windows than windowLimit and one of them is not focused, the
\* extension, with no further user action, eventually brings the number of
\* windows down to windowLimit or less.
C19_ExcessWindowsEventuallyClosed ==
  ( /\ config.enabled
    /\ config.autoCloseWindows
    /\ Cardinality(windows) > config.windowLimit
    /\ \E w \in windows : w # focused )
  ~> (Cardinality(windows) <= config.windowLimit)

\* ---- claims on the badge (SpecBadge)

\* the number a digit string denotes
RECURSIVE ParseInt(_)
ParseInt(ds) ==
  IF ds = <<>> THEN 0
  ELSE 10 * ParseInt(SubSeq(ds, 1, Len(ds) - 1)) + ds[Len(ds)]

\* the tab count the refresh recorded for window w
CountedFor(stats, w) ==
  LET i == CHOOSE j \in 1..Len(stats) : stats[j].windowId = w
  IN stats[i].tabCount

RECURSIVE SumCounted(_, _)
SumCounted(stats, S) ==
  IF S = {} THEN 0
  ELSE LET w == CHOOSE x \in S : TRUE
       IN CountedFor(stats, w) + SumCounted(stats, S \ {w})

SnapshotNormal == { w \in DOMAIN lastRefresh.snapshot :
                      lastRefresh.snapshot[w] = "normal" }

\* C20: a refresh that runs to its end has counted each normal window of
\* its snapshot once and no other window, shows the sum of those counts as
\* the badge text, and shows the alert colour exactly when one of those
\* counts is above tabLimit or the number of normal windows is above
\* windowLimit, the normal colour otherwise; no refresh lets an exception
\* out.
C20_BadgeShowsTotalAndAlert ==
  /\ ~lastRefresh.propagated
  /\ lastRefresh.completed =>
       LET st == lastRefresh.stats
           over == \/ \E w \in SnapshotNormal :
                        CountedFor(st, w) > lastRefresh.cfg.tabLimit
                   \/ Cardinality(SnapshotNormal) > lastRefresh.cfg.windowLimit
       IN /\ { st[i].windowId : i \in 1..Len(st) } = SnapshotNormal
          /\ Len(st) = Cardinality(SnapshotNormal)
          /\ ParseInt(badge.text) = SumCounted(st, SnapshotNormal)
          /\ Len(badge.text) >= 1
          /\ badge.color = IF over THEN "#ff4444" ELSE "#44ff44"

\* a refresh over a popup and as many normal windows as the window limit
\* allows, none above the tab limit
C20_Witness ==
  /\ lastRefresh.completed
  /\ \E w \in DOMAIN lastRefresh.snapshot : lastRefresh.snapshot[w] = "popup"
  /\ Cardinality(SnapshotNormal) = lastRefresh.cfg.windowLimit
  /\ badge.color = "#44ff44"

\* ---- claims on overlapping badge refreshes (SpecBadgeRace)

\* what a refresh over the windows as they are now would count
CurrentStats ==
  LET ids == NormalWindowIds(allWindows) IN
  [i \in 1..Len(ids) |->
     [windowId |-> ids[i], tabCount |-> allWindows[ids[i]].tabCount]]

\* C36: once no event is pending and every refresh has run to its end,
\* the badge text is the current total of tabs in normal windows and the
\* badge colour is the one the current counts and limits give.
C36_BadgeCurrentAtQuiescence ==
  (/\ pendingEvents = 0
   /\ \A s \in DOMAIN calls : calls[s].pc = "idle"
   /\ badge # NoBadge) =>
    /\ badge.text = ToString(TotalTabs(CurrentStats))
    /\ badge.color = BadgeColor(CurrentStats, limits)

\* ---- claims on windows of any type (SpecKinds)

\* the open windows that are not of type normal
OtherWindows ==
  { w \in DOMAIN allWindows : allWindows[w].type # "normal" }

\* C39: a window that is not of type normal has no entry in recentWindows
\* or windowTimeouts and no grace timer, is never removed by a grace
\* callback or an enforcement pass, and does not count: a grace callback
\* and the first removal of a pass happen with more normal windows than
\* windowLimit.
C39_OnlyNormalWindowsEnforced ==
  /\ OtherWindows \cap (DOMAIN recentWindows \cup DOMAIN windowTimeouts) = {}
  /\ \A t \in timers : t.wid \notin OtherWindows
  /\ lastClose.by # "none" => lastClose.wid \in lastClose.seen
  /\ (lastClose.by = "grace" \/ lastClose.atSnapshot) =>
       (lastClose.by # "none" =>
          Cardinality(lastClose.seen) > lastClose.limit)

\* a popup is open, untracked, while a grace callback closes a normal
\* window next to it
C39_Witness ==
  /\ OtherWindows # {}
  /\ lastClose.by = "grace"
  /\ Cardinality(lastClose.seen) = 2

\* ---- claims on the whole extension, disabled

C15_DisabledClosesNothing ==
  lastClose.by # "none" => config.enabled

====
